---- MODULE Spec2Model ----
(***************************************************************************)
(* IGNIS-OS: the task scheduler (src/scheduler/task.c), the PIT tick       *)
(* (src/drivers/pit.c), the TTY line discipline (src/tty/tty.c) and the    *)
(* buddy allocator (src/mm/buddy.c).                                       *)
(*                                                                         *)
(* Granularity.  IRQ0 and IRQ1 are installed as interrupt gates (0x8E,     *)
(* src/interrupts/idt.c:72-75), so a handler runs to completion with       *)
(* interrupts off: each handler is one action.  Task code runs with        *)
(* interrupts on, so the primitives a task calls (task_yield, task_block,  *)
(* task_sleep, task_exit, tty_read) are split at their statements and an   *)
(* interrupt may be taken between any two of them.  A scheduler_tick that  *)
(* a task calls is split in three: the sleep-queue scan, the time-slice    *)
(* test with scheduler_pick_next, and the switch.                          *)
(*                                                                         *)
(* Specifications.  Spec: tasks calling the primitives and tty_read, with  *)
(* the PIT and the keyboard interrupting.  SpecRR: tasks that only         *)
(* compute, with the PIT.  SpecDestroy: Spec with task_destroy.            *)
(* SpecBuddy: buddy_init and then calls of the allocator; what callers     *)
(* store in the blocks they hold is left out.                              *)
(***************************************************************************)
EXTENDS Integers, Sequences, FiniteSets, TLC

\* ------------------------------------------------------------------ bounds
NumTasks == 2          \* tasks created besides the idle task
MaxTicks == 12         \* PIT ticks explored
MaxSleep == 2          \* largest argument of task_sleep
MaxKeys == 2           \* keyboard interrupts explored
MaxTicksRR == 100      \* PIT ticks explored with compute-bound tasks only
MaxDestroys == 1       \* calls of task_destroy explored
JunkBits == 2          \* bits past the bitmap's end that may read as set
MaxAllocOrder == 2     \* largest order asked of buddy_alloc_order
MaxOps == 5            \* buddy_alloc_order / buddy_alloc / buddy_free calls
MaxSlabOps == 5        \* slab_alloc / slab_free / slab_cache_shrink calls
MaxPmmOps == 4         \* PMM calls after pmm_init
MAX_DRIVERS == 3       \* size of driver_registry (32 in driver.h)
MaxKOps == 3           \* kmalloc / kfree calls after slab_init
MaxVmmOps == 3         \* VMM calls after vmm_init
MaxIdx == 1            \* largest index into a page table
MaxRun == 3            \* largest count passed to pmm_alloc_pages and pmm_free_pages

\* ------------------------------------------------------- program constants
TIME_SLICE_TICKS == 10
TTY_BUFFER_SIZE == 256
BUDDY_MAX_ORDER == 11
PAGE_SIZE == 4096
RegionBase == 67108864 \* kernel.c:85: buddy_init(buddy, 0x04000000, 0x04000000)
RegionSize == 67108864

NULL == -1
PHYS_LOW_MEM_START == 0
PHYS_LOW_MEM_END == 1048576
PHYS_KERNEL_START == 1048576
PHYS_KERNEL_END == 2097152
PHYS_HEAP_START == 2097152
PHYS_HEAP_END == 3145728
PHYS_BITMAP_START == 3145728
PHYS_BITMAP_END == 4194304
PHYS_FREE_START == 4194304
PHYS_MEMORY_END == 134217728
PAGE_PRESENT == 1
PAGE_WRITE == 2
PAGE_HUGE == 128
Task == 0 .. NumTasks
UserTask == 1 .. NumTasks

VARIABLES
    created,            \* tasks for which task_create has returned
    state,              \* task->state
    next,               \* task->next
    time_slice,         \* task->time_slice
    wake_time,          \* task->wake_time
    current_task,
    idle_task,
    ready_queue_head,
    ready_queue_tail,
    sleep_queue_head,
    pit_ticks,          \* pit.c: pit_ticks
    irq_enabled,        \* kernel.c: idt_enable_interrupts() has run
    hung,               \* a kernel loop over a queue does not terminate
    pc,                 \* where each task's code stands
    local,              \* locals of the primitive a task is inside
    buffer,             \* tty.c: global_tty.buffer
    read_pos,
    write_pos,
    count,
    waiting_task,
    keys,               \* keyboard interrupts taken so far
    pending,            \* ghost: bytes delivered and unread, backspaces applied
    expect,             \* ghost: the bytes of pending a read in progress has consumed
    missed,             \* ghost: a newline was delivered since the task's last scan
    last_read,          \* what each task's last tty_read returned
    slices,             \* ghost: the task that ran each completed time slice
    destroyed,          \* ghost: tasks passed to task_destroy
    g_buddy_allocator,  \* buddy.c: buddy_init has set the global allocator
    base_addr,
    total_size,
    total_pages,
    free_lists,         \* head of each order's free list
    blk_next,           \* buddy_block_t.next of the blocks that were linked
    blk_prev,           \* buddy_block_t.prev
    allocation_bitmap,  \* the bits that are set
    splits,
    merges,
    held,               \* ghost: addresses handed out and not yet freed
    ops,                \* allocator calls made so far
    calls,              \* ghost: the allocator calls of a logged run, with what they returned
    caches,             \* slab.c: the slab_cache_t of each cache created
    slabs,              \* slab.c: the slab_t header written at each slab address
    wild,               \* a pointer that was never initialised has been followed
    live,               \* ghost: objects handed out by slab_alloc and not freed
    slab_calls,         \* ghost: the last two slab calls, with what they returned
    slab_ops,           \* slab calls made so far
    pmm_ready,          \* pmm.c: pmm_init has run
    page_bitmap,        \* pmm.c: the page indices whose bit is set
    pmm_total_pages,    \* pmm.c: total_pages
    used_pages,         \* pmm.c: used_pages
    pmm_held,           \* ghost: frames handed out and not given back
    pmm_last,           \* ghost: the last PMM call, with what it returned
    pmm_ops,            \* PMM calls made so far
    current_pml4_phys,  \* vmm.c: the root of the page tables
    vmem,               \* the frames read as page tables: frame -> entries
    vmm_calls,          \* ghost: the last two vmm_map_page / _unmap_page calls
    vmm_got,            \* ghost: the last vmm_get_physical call
    vmm_ops,            \* VMM calls made so far
    driver_registry,    \* driver.c: the registered drivers, in order
    drv_status,         \* driver_t.status of the driver of each name
    init_all,           \* driver_init_all: its position and its locals
    init_call,          \* ghost: the driver the last visit initialised
    drv_of,             \* ghost: the driver_t last registered under each name
    kmalloc_cache,      \* slab.c: kmalloc_cache_32 .. kmalloc_cache_4096
    kmagic,             \* the addresses whose first word is BUDDY_MAGIC
    klive,              \* ghost: pointers kmalloc returned, not yet kfreed
    kcalls,             \* ghost: the last two kmalloc / kfree calls
    kops,               \* kmalloc / kfree calls made so far
    nvme_ctrl,          \* nvme.c: nvme_ctrl and nvme_block_devices
    nvme_regs,          \* the controller's registers behind BAR0
    nvme_dev,           \* the controller: PCI class, queue pointers, phase
    nvme_pc,            \* where nvme_init or a block operation stands
    nvme_hist,          \* ghost: the entries posted and consumed, per queue
    vfs_root,           \* vfs.c: vfs_root
    mount_in_use,       \* vfs.c: mount_table[0].in_use, the slot of "/"
    fs_root,            \* the ramfs filesystem_t: fs->root
    fs_nodes,           \* each vfs_node_t with the ramfs_node_t behind it
    fs_allocs,          \* the kmalloc blocks of the filesystem not yet freed
    fs_next,            \* the number of the next node pair
    fs_base,            \* ghost: the blocks live just before vfs_mount
    fs_last,            \* ghost: the last VFS call, with what it returned
    fs_ops              \* VFS calls made so far

svars == <<created, state, next, time_slice, wake_time, current_task,
           idle_task, ready_queue_head, ready_queue_tail, sleep_queue_head,
           pit_ticks, irq_enabled, hung, pc, local>>

\* The scheduler's data as one value, so that the C functions can be written
\* as functions from scheduler value to scheduler value.
Sched == [state |-> state, next |-> next, time_slice |-> time_slice,
          wake_time |-> wake_time, current_task |-> current_task,
          ready_queue_head |-> ready_queue_head,
          ready_queue_tail |-> ready_queue_tail,
          sleep_queue_head |-> sleep_queue_head, hung |-> hung]

\* ------------------------------------------------------------ task.c
\* scheduler_add_task: state = READY, next = NULL, append at the tail.
scheduler_add_task(s, t) ==
    IF t = NULL THEN s
    ELSE LET s1 == [s EXCEPT !.state[t] = "READY", !.next[t] = NULL]
         IN  IF s1.ready_queue_head = NULL
             THEN [s1 EXCEPT !.ready_queue_head = t, !.ready_queue_tail = t]
             ELSE [[s1 EXCEPT !.next[s1.ready_queue_tail] = t]
                       EXCEPT !.ready_queue_tail = t]

\* The search loop of scheduler_remove_task (prev/curr walk).  fuel bounds
\* the walk: a walk that outlives every task is on a cycle and never ends.
RECURSIVE RemoveWalk(_, _, _, _, _)
RemoveWalk(s, prev, curr, t, fuel) ==
    IF curr = NULL THEN s
    ELSE IF fuel = 0 THEN [s EXCEPT !.hung = TRUE]
    ELSE IF curr = t
         THEN LET s1 == [s EXCEPT !.next[prev] = s.next[curr]]
                  s2 == IF s1.ready_queue_tail = curr
                        THEN [s1 EXCEPT !.ready_queue_tail = prev] ELSE s1
              IN  [s2 EXCEPT !.next[t] = NULL]
         ELSE RemoveWalk(s, curr, s.next[curr], t, fuel - 1)

scheduler_remove_task(s, t) ==
    IF t = NULL \/ s.ready_queue_head = NULL THEN s
    ELSE IF s.ready_queue_head = t
         THEN LET s1 == [s EXCEPT !.ready_queue_head = s.next[t]]
                  s2 == IF s1.ready_queue_head = NULL
                        THEN [s1 EXCEPT !.ready_queue_tail = NULL] ELSE s1
              IN  [s2 EXCEPT !.next[t] = NULL]
         ELSE RemoveWalk(s, s.ready_queue_head, s.next[s.ready_queue_head],
                         t, NumTasks + 2)

\* scheduler_pick_next: the head of the ready queue, or the idle task.
\* Gives the task picked and the scheduler value left behind.
scheduler_pick_next(s, idle) ==
    IF s.ready_queue_head = NULL THEN [task |-> idle, s |-> s]
    ELSE LET nx == s.ready_queue_head
             s1 == [s EXCEPT !.ready_queue_head = s.next[nx]]
             s2 == IF s1.ready_queue_head = NULL
                   THEN [s1 EXCEPT !.ready_queue_tail = NULL] ELSE s1
         IN  [task |-> nx, s |-> [s2 EXCEPT !.next[nx] = NULL]]

\* The loop of scheduler_check_sleeping_tasks.
RECURSIVE SleepWalk(_, _, _, _, _)
SleepWalk(s, prev, curr, ticks, fuel) ==
    IF curr = NULL THEN s
    ELSE IF fuel = 0 THEN [s EXCEPT !.hung = TRUE]
    ELSE LET nx == s.next[curr]
         IN  IF ticks >= s.wake_time[curr]
             THEN LET s1 == IF prev # NULL
                            THEN [s EXCEPT !.next[prev] = nx]
                            ELSE [s EXCEPT !.sleep_queue_head = nx]
                      s2 == [s1 EXCEPT !.next[curr] = NULL]
                  IN  SleepWalk(scheduler_add_task(s2, curr), prev, nx,
                                ticks, fuel - 1)
             ELSE SleepWalk(s, curr, nx, ticks, fuel - 1)

scheduler_check_sleeping_tasks(s, ticks) ==
    IF s.sleep_queue_head = NULL THEN s
    ELSE SleepWalk(s, NULL, s.sleep_queue_head, ticks, NumTasks + 2)

\* scheduler_tick, lines 290-300: the time slice is counted down and, when
\* it is used up, the next task is picked.
TickPick(s, idle) ==
    LET c  == s.current_task
        s1 == IF s.time_slice[c] > 0
              THEN [s EXCEPT !.time_slice[c] = @ - 1] ELSE s
    IN  IF s1.time_slice[c] = 0
        THEN LET pk == scheduler_pick_next(s1, idle)
             IN  [expired |-> TRUE, new_task |-> pk.task, s |-> pk.s]
        ELSE [expired |-> FALSE, new_task |-> NULL, s |-> s1]

\* scheduler_tick, lines 302-331: the old task is queued again if it is
\* still RUNNING and the new one becomes current.  task_switch is the change
\* of current_task: the old task's code stays where it stands until the task
\* is current again.
TickSwitch(s, old_task, new_task) ==
    IF new_task # NULL /\ new_task # old_task
    THEN LET s3 == IF s.state[old_task] = "RUNNING"
                   THEN scheduler_add_task(
                          [s EXCEPT !.time_slice[old_task] = TIME_SLICE_TICKS],
                          old_task)
                   ELSE s
         IN  [s3 EXCEPT !.state[new_task] = "RUNNING",
                        !.time_slice[new_task] = TIME_SLICE_TICKS,
                        !.current_task = new_task]
    ELSE [s EXCEPT !.time_slice[s.current_task] = TIME_SLICE_TICKS]

\* scheduler_tick as the PIT handler runs it, in one piece.
scheduler_tick(s, ticks, idle) ==
    IF s.current_task = NULL THEN s
    ELSE LET s0 == scheduler_check_sleeping_tasks(s, ticks)
             pk == TickPick(s0, idle)
         IN  IF s0.hung THEN s0
             ELSE IF pk.expired
                  THEN TickSwitch(pk.s, s0.current_task, pk.new_task)
                  ELSE pk.s

\* task_unblock
task_unblock(s, t) ==
    IF t = NULL \/ s.state[t] # "BLOCKED" THEN s
    ELSE scheduler_add_task(s, t)

\* Writes a scheduler value back to the variables.
SetSched(s) ==
    /\ state' = s.state
    /\ next' = s.next
    /\ time_slice' = s.time_slice
    /\ wake_time' = s.wake_time
    /\ current_task' = s.current_task
    /\ ready_queue_head' = s.ready_queue_head
    /\ ready_queue_tail' = s.ready_queue_tail
    /\ sleep_queue_head' = s.sleep_queue_head
    /\ hung' = s.hung

\* ------------------------------------------------------------ tty.c
tvars == <<buffer, read_pos, write_pos, count, waiting_task>>
gvars == <<keys, pending, expect, missed, last_read>>
bvars == <<g_buddy_allocator, base_addr, total_size, total_pages, free_lists,
           blk_next, blk_prev, allocation_bitmap, splits, merges, held, ops,
           calls>>
\* The state of the other memory managers and of the driver registry.
slvars == <<caches, slabs, wild, live, slab_calls, slab_ops>>
pvars == <<pmm_ready, page_bitmap, pmm_total_pages, used_pages, pmm_held,
           pmm_last, pmm_ops>>
vvars == <<current_pml4_phys, vmem, vmm_calls, vmm_got, vmm_ops>>
dvars == <<driver_registry, drv_status, init_all, init_call, drv_of>>
kvars == <<kmalloc_cache, kmagic, klive, kcalls, kops>>
nvars == <<nvme_ctrl, nvme_regs, nvme_dev, nvme_pc, nvme_hist>>
fvars == <<vfs_root, mount_in_use, fs_root, fs_nodes, fs_allocs, fs_next,
           fs_base, fs_last, fs_ops>>
iovars == <<nvars, fvars>>
ovars == <<slvars, pvars, vvars, dvars, kvars, iovars>>

NL == 10               \* '\n'
BS == 8                \* '\b'
Chars == {97, NL, BS}  \* what keyboard_handler passes on: a letter, Enter, Backspace

Tty == [buffer |-> buffer, read_pos |-> read_pos, write_pos |-> write_pos,
        count |-> count, waiting_task |-> waiting_task]

SetTty(ty) ==
    /\ buffer' = ty.buffer
    /\ read_pos' = ty.read_pos
    /\ write_pos' = ty.write_pos
    /\ count' = ty.count
    /\ waiting_task' = ty.waiting_task

\* tty_input_char.  Gives the tty and the scheduler value it leaves.
tty_input_char(ty, s, c) ==
    IF c = BS
    THEN IF ty.count > 0
         THEN [tty |-> [ty EXCEPT !.write_pos = (ty.write_pos - 1 + TTY_BUFFER_SIZE)
                                                   % TTY_BUFFER_SIZE,
                                  !.count = ty.count - 1],
               s |-> s]
         ELSE [tty |-> ty, s |-> s]
    ELSE LET t1 == IF ty.count < TTY_BUFFER_SIZE
                   THEN [ty EXCEPT !.buffer[ty.write_pos] = c,
                                   !.write_pos = (ty.write_pos + 1) % TTY_BUFFER_SIZE,
                                   !.count = ty.count + 1]
                   ELSE ty
         IN  IF c = NL /\ t1.waiting_task # NULL
             THEN [tty |-> [t1 EXCEPT !.waiting_task = NULL],
                   s |-> task_unblock(s, t1.waiting_task)]
             ELSE [tty |-> t1, s |-> s]

\* The scan loop of tty_read (tty.c:75-86): has_newline.
HasNewline(ty) ==
    \E i \in 0 .. ty.count - 1 :
        ty.buffer[(ty.read_pos + i) % TTY_BUFFER_SIZE] = NL

\* One iteration of the copy loop of tty_read (tty.c:101-111).
ReadCopyStep(ty, out) ==
    LET c == ty.buffer[ty.read_pos]
    IN  [tty |-> [ty EXCEPT !.read_pos = (ty.read_pos + 1) % TTY_BUFFER_SIZE,
                            !.count = ty.count - 1],
         out |-> Append(out, c),
         brk |-> (c = NL)]

\* ------------------------------------------------------------ buddy.c
\* Blocks are named by their physical address (PHYS_TO_VIRT and VIRT_TO_PHYS
\* add and subtract one offset).  buddy.c calls remove_from_free_list and
\* addr_to_block_index, which it defines as remove_from_tree_list and
\* addr_to_index, and index_to_addr lacks its "+": the model takes the
\* functions the calls mean.
BUDDY_PAGES_PER_ORDER(order) == 2 ^ order
BUDDY_SIZE_FOR_ORDER(order) == PAGE_SIZE * BUDDY_PAGES_PER_ORDER(order)

Buddy == [free_lists |-> free_lists, blk_next |-> blk_next,
          blk_prev |-> blk_prev, bitmap |-> allocation_bitmap,
          base_addr |-> base_addr, total_size |-> total_size,
          splits |-> splits, merges |-> merges, hung |-> hung]

addr_to_index(b, addr) == (addr - b.base_addr) \div PAGE_SIZE
index_to_addr(b, index) == b.base_addr + index * PAGE_SIZE

\* block_index ^ BUDDY_PAGES_PER_ORDER(order): bit `order` of the index flipped
XorOrder(index, order) ==
    IF (index \div BUDDY_PAGES_PER_ORDER(order)) % 2 = 0
    THEN index + BUDDY_PAGES_PER_ORDER(order)
    ELSE index - BUDDY_PAGES_PER_ORDER(order)

get_buddy_addr(b, addr, order) ==
    index_to_addr(b, XorOrder(addr_to_index(b, addr), order))

\* A store through a block pointer.
Put(f, a, v) == (a :> v) @@ f

remove_from_free_list(b, block, order) ==
    LET b1 == IF b.blk_prev[block] # NULL
              THEN [b EXCEPT !.blk_next = Put(@, b.blk_prev[block],
                                               b.blk_next[block])]
              ELSE [b EXCEPT !.free_lists[order] = b.blk_next[block]]
        b2 == IF b1.blk_next[block] # NULL
              THEN [b1 EXCEPT !.blk_prev = Put(@, b1.blk_next[block],
                                                b1.blk_prev[block])]
              ELSE b1
    IN  [b2 EXCEPT !.blk_next = Put(@, block, NULL),
                   !.blk_prev = Put(@, block, NULL)]

\* add_to_free_list: the block becomes the head of the order's list.
add_to_free_list(b, addr, order) ==
    LET h  == b.free_lists[order]
        b1 == [b EXCEPT !.blk_next = Put(@, addr, h),
                        !.blk_prev = Put(@, addr, NULL)]
        b2 == IF h # NULL THEN [b1 EXCEPT !.blk_prev = Put(@, h, addr)]
              ELSE b1
    IN  [b2 EXCEPT !.free_lists[order] = addr]

\* split_block: gives whether it succeeded and the allocator it leaves.
RECURSIVE split_block(_, _)
split_block(b, order) ==
    IF order >= BUDDY_MAX_ORDER THEN [ok |-> FALSE, b |-> b]
    ELSE LET r == IF b.free_lists[order + 1] = NULL
                  THEN split_block(b, order + 1)
                  ELSE [ok |-> TRUE, b |-> b]
         IN  IF ~r.ok THEN r
             ELSE LET block == r.b.free_lists[order + 1]
                      b1 == remove_from_free_list(r.b, block, order + 1)
                      b2 == add_to_free_list(b1, block, order)
                      b3 == add_to_free_list(
                                b2, block + BUDDY_SIZE_FOR_ORDER(order), order)
                  IN  [ok |-> TRUE, b |-> [b3 EXCEPT !.splits = @ + 1]]

\* The while loop of try_merge: is the buddy linked on the list.  A walk
\* longer than the number of blocks ever linked is on a cycle.
RECURSIVE FindBuddy(_, _, _, _)
FindBuddy(b, buddy, buddy_virt, fuel) ==
    IF buddy = NULL THEN "absent"
    ELSE IF buddy = buddy_virt THEN "found"
    ELSE IF fuel = 0 THEN "hung"
    ELSE FindBuddy(b, b.blk_next[buddy], buddy_virt, fuel - 1)

\* try_merge with the merge left out.
TryMergeNever(b, addr, order) == b

RECURSIVE try_merge(_, _, _)
try_merge(b, addr, order) ==
    IF order >= BUDDY_MAX_ORDER THEN b
    ELSE LET buddy_addr == get_buddy_addr(b, addr, order)
         IN  IF \/ buddy_addr < b.base_addr
                \/ buddy_addr >= b.base_addr + b.total_size
             THEN b
             ELSE IF addr_to_index(b, buddy_addr) \in b.bitmap THEN b
             ELSE LET f == FindBuddy(b, b.free_lists[order], buddy_addr,
                                     Cardinality(DOMAIN b.blk_next))
                  IN  IF f = "hung" THEN [b EXCEPT !.hung = TRUE]
                      ELSE IF f = "absent" THEN b
                      ELSE LET b1 == remove_from_free_list(b, buddy_addr, order)
                               b2 == remove_from_free_list(b1, addr, order)
                               merged_addr == IF addr < buddy_addr
                                              THEN addr ELSE buddy_addr
                               b3 == add_to_free_list(b2, merged_addr, order + 1)
                           IN  try_merge([b3 EXCEPT !.merges = @ + 1],
                                         merged_addr, order + 1)

\* buddy_init, lines 190-199: the blocks are added in descending order.
RECURSIVE InitBlocks(_, _, _, _)
InitBlocks(b, order, current_addr, remaining_size) ==
    IF order < 0 THEN b
    ELSE IF remaining_size >= BUDDY_SIZE_FOR_ORDER(order)
         THEN InitBlocks(add_to_free_list(b, current_addr, order), order,
                         current_addr + BUDDY_SIZE_FOR_ORDER(order),
                         remaining_size - BUDDY_SIZE_FOR_ORDER(order))
         ELSE InitBlocks(b, order - 1, current_addr, remaining_size)

\* buddy_init for a page-aligned base and a size that is a power of two.
\* junk is the set of bits past the bytes memset clears that read as set.
buddy_init(b, base, size, junk) ==
    LET pages        == size \div PAGE_SIZE
        bitmap_size  == (pages + 7) \div 8
        bitmap_pages == (bitmap_size + PAGE_SIZE - 1) \div PAGE_SIZE
        b0 == [b EXCEPT !.base_addr = base, !.total_size = size,
                        !.free_lists = [k \in 0 .. BUDDY_MAX_ORDER |-> NULL],
                        !.splits = 0, !.merges = 0,
                        !.bitmap = (0 .. bitmap_pages - 1) \cup junk]
    IN  InitBlocks(b0, BUDDY_MAX_ORDER, base + bitmap_pages * PAGE_SIZE,
                   size - bitmap_pages * PAGE_SIZE)

RECURSIVE OrderLoop(_, _)
OrderLoop(pages, order) ==
    IF BUDDY_PAGES_PER_ORDER(order) < pages /\ order < BUDDY_MAX_ORDER
    THEN OrderLoop(pages, order + 1) ELSE order

buddy_get_order_for_size(size) ==
    OrderLoop((size + PAGE_SIZE - 1) \div PAGE_SIZE, 0)

\* buddy_alloc_order: gives the address returned (0 for failure) and the
\* allocator it leaves.
buddy_alloc_order(b, order) ==
    IF order > BUDDY_MAX_ORDER THEN [addr |-> 0, b |-> b]
    ELSE LET r == IF b.free_lists[order] = NULL
                  THEN split_block(b, order)
                  ELSE [ok |-> TRUE, b |-> b]
         IN  IF ~r.ok THEN [addr |-> 0, b |-> r.b]
             ELSE LET block == r.b.free_lists[order]
                  IN  IF block = NULL THEN [addr |-> 0, b |-> r.b]
                      ELSE LET b1 == remove_from_free_list(r.b, block, order)
                               block_index == addr_to_index(b1, block)
                           IN  [addr |-> block,
                                b |-> [b1 EXCEPT !.bitmap = @ \cup
                                         (block_index .. block_index +
                                            BUDDY_PAGES_PER_ORDER(order) - 1)]]

buddy_alloc(b, size) == buddy_alloc_order(b, buddy_get_order_for_size(size))

\* buddy_free, lines 294-315: the order is read off the bitmap, as the run
\* of set bits that starts at the block.
RECURSIVE FreeOrder(_, _, _)
FreeOrder(b, block_index, order) ==
    IF /\ order < BUDDY_MAX_ORDER
       /\ \A i \in BUDDY_PAGES_PER_ORDER(order) ..
                    BUDDY_PAGES_PER_ORDER(order + 1) - 1 :
              block_index + i \in b.bitmap
    THEN FreeOrder(b, block_index, order + 1)
    ELSE order

buddy_free(b, phys_addr) ==
    IF \/ phys_addr < b.base_addr
       \/ phys_addr >= b.base_addr + b.total_size
    THEN b
    ELSE IF phys_addr % PAGE_SIZE # 0 THEN b
    ELSE LET block_index == addr_to_index(b, phys_addr)
         IN  IF block_index \notin b.bitmap THEN b
             ELSE LET order == FreeOrder(b, block_index, 0)
                      b1 == [b EXCEPT !.bitmap = @ \
                               (block_index .. block_index +
                                  BUDDY_PAGES_PER_ORDER(order) - 1)]
                      b2 == add_to_free_list(b1, phys_addr, order)
                  IN  try_merge(b2, phys_addr, order)

SetBuddy(b) ==
    /\ free_lists' = b.free_lists
    /\ blk_next' = b.blk_next
    /\ blk_prev' = b.blk_prev
    /\ allocation_bitmap' = b.bitmap
    /\ base_addr' = b.base_addr
    /\ total_size' = b.total_size
    /\ splits' = b.splits
    /\ merges' = b.merges
    /\ hung' = b.hung

\* ------------------------------------------------------------- slab.c
\* A slab is named by the physical address buddy_alloc_order returned for
\* it.  slab_t starts with next and prev, and so does buddy_block_t: the two
\* pointers of a slab are the words blk_next and blk_prev hold for its
\* address, which buddy_free writes when the slab's pages go back.  The
\* other fields of a slab_t stay as last written.  The counters are uint32_t
\* and uint64_t: the model keeps a counter taken below 0 as a negative
\* number, for the value 2^32 or 2^64 larger that the field then holds.
SLAB_ALIGN == 8
SizeofSlab == 56         \* sizeof(slab_t): 5 pointers, 2 uint32_t, an enum, padding
SizeofSlabCache == 128   \* sizeof(slab_cache_t)
SizeofBuddyHeader == 16  \* sizeof(buddy_alloc_header_t)

\* (size + align - 1) & ~(align - 1), align a power of two
align_size(size, align) == ((size + align - 1) \div align) * align

RECURSIVE OrderFits(_, _)
OrderFits(min_slab_size, order) ==
    IF order > 3 THEN 2
    ELSE IF BUDDY_SIZE_FOR_ORDER(order) >= min_slab_size THEN order
    ELSE OrderFits(min_slab_size, order + 1)

calculate_slab_order(object_size) == OrderFits(object_size * 8, 0)

Mem == [caches |-> caches, slabs |-> slabs, wild |-> wild, b |-> Buddy]

\* F(x), with x worked out once before F uses it.
With(x, F(_)) == CHOOSE v \in {F(y) : y \in {x}} : TRUE

\* The list head of a cache that holds the slabs of a state.
HeadOf(st) ==
    CASE st = "SLAB_EMPTY" -> "slabs_empty"
      [] st = "SLAB_PARTIAL" -> "slabs_partial"
      [] st = "SLAB_FULL" -> "slabs_full"

\* remove_slab_from_list: a slab at the head of its list is unlinked from
\* the list of the state it has now.
remove_slab_from_list(mem, slab) ==
    With(mem, LAMBDA m :
        LET nx == m.b.blk_next[slab]
            pv == m.b.blk_prev[slab]
            m1 == IF pv # NULL
                  THEN [m EXCEPT !.b.blk_next = Put(@, pv, nx)]
                  ELSE LET cache == m.slabs[slab].cache
                       IN  [m EXCEPT !.caches[cache] =
                               [@ EXCEPT ![HeadOf(m.slabs[slab].state)] = nx]]
            m2 == IF nx # NULL
                  THEN [m1 EXCEPT !.b.blk_prev = Put(@, nx, pv)]
                  ELSE m1
        IN  [m2 EXCEPT !.b.blk_next = Put(@, slab, NULL),
                       !.b.blk_prev = Put(@, slab, NULL)])

add_slab_to_list(mem, cache, slab) ==
    With(mem, LAMBDA m :
        LET head == HeadOf(m.slabs[slab].state)
            h    == m.caches[cache][head]
            m1   == [m EXCEPT !.b.blk_next = Put(@, slab, h),
                              !.b.blk_prev = Put(@, slab, NULL)]
            m2   == IF h # NULL
                    THEN [m1 EXCEPT !.b.blk_prev = Put(@, h, slab)]
                    ELSE m1
        IN  [m2 EXCEPT !.caches[cache] = [@ EXCEPT ![head] = slab]])

\* The free list allocate_slab builds: each object is pushed at the front, so
\* the last object of the slab is its head.
InitialFreeList(objects, n, aligned_size) ==
    [i \in 1 .. n |-> objects + (n - i) * aligned_size]

\* allocate_slab: gives the slab (NULL for failure) and the memory it leaves.
allocate_slab(mem, cache) ==
    With(mem, LAMBDA m :
      With(buddy_alloc_order(m.b, m.caches[cache].slab_order), LAMBDA r :
        IF r.addr = 0 THEN [slab |-> NULL, m |-> [m EXCEPT !.b = r.b]]
        ELSE LET c == m.caches[cache]
                 slab == r.addr
                 objects == slab + align_size(SizeofSlab, SLAB_ALIGN)
                 hdr == [cache |-> cache, objects |-> objects,
                         free_list |-> InitialFreeList(objects,
                                          c.objects_per_slab, c.aligned_size),
                         num_objects |-> c.objects_per_slab,
                         free_objects |-> c.objects_per_slab,
                         state |-> "SLAB_EMPTY"]
                 b1 == [r.b EXCEPT !.blk_next = Put(@, slab, NULL),
                                   !.blk_prev = Put(@, slab, NULL)]
             IN  [slab |-> slab,
                  m |-> [m EXCEPT !.b = b1,
                                  !.slabs = Put(@, slab, hdr),
                                  !.caches[cache].num_slabs = @ + 1]]))

\* free_slab (no destructor): the pages go back to the buddy allocator.
free_slab(mem, slab) ==
    With(mem, LAMBDA m :
        [m EXCEPT !.b = buddy_free(m.b, slab),
                  !.caches[m.slabs[slab].cache].num_slabs = @ - 1])

\* slab_cache_create: gives the cache (NULL for failure) and the memory.
slab_cache_create(mem, object_size) ==
    IF object_size = 0 THEN [cache |-> NULL, m |-> mem]
    ELSE With(mem, LAMBDA m :
      With(buddy_alloc(m.b, SizeofSlabCache), LAMBDA r :
         IF r.addr = 0 THEN [cache |-> NULL, m |-> [m EXCEPT !.b = r.b]]
         ELSE LET aligned == align_size(object_size, SLAB_ALIGN)
                  order == calculate_slab_order(aligned)
                  usable == BUDDY_SIZE_FOR_ORDER(order)
                                - align_size(SizeofSlab, SLAB_ALIGN)
                  c == [object_size |-> object_size,
                        aligned_size |-> aligned,
                        slab_order |-> order,
                        objects_per_slab |-> usable \div aligned,
                        slabs_full |-> NULL, slabs_partial |-> NULL,
                        slabs_empty |-> NULL,
                        num_allocations |-> 0, num_frees |-> 0,
                        num_slabs |-> 0, num_active_objects |-> 0]
              IN  [cache |-> r.addr,
                   m |-> [m EXCEPT !.b = r.b,
                                   !.caches = Put(@, r.addr, c)]]))

\* slab_alloc, lines 310-323: the object is taken, the state is set and the
\* slab is moved when its state changed.
TakeObject(mem, cache, slab) ==
    With(mem, LAMBDA m :
        LET h == m.slabs[slab]
        IN  IF h.free_list = <<>> THEN [obj |-> NULL, m |-> m]
            ELSE LET obj == Head(h.free_list)
                     free_objects == h.free_objects - 1
                     new_state == IF free_objects = 0 THEN "SLAB_FULL"
                                  ELSE "SLAB_PARTIAL"
                     m1 == [m EXCEPT !.slabs[slab] =
                                [h EXCEPT !.free_list = Tail(h.free_list),
                                          !.free_objects = free_objects,
                                          !.state = new_state]]
                     m2 == IF h.state # new_state
                           THEN add_slab_to_list(
                                    remove_slab_from_list(m1, slab), cache, slab)
                           ELSE m1
                 IN  [obj |-> obj,
                      m |-> [m2 EXCEPT
                               !.caches[cache].num_allocations = @ + 1,
                               !.caches[cache].num_active_objects = @ + 1]])

\* slab_alloc, lines 288-303: the slab the object is taken from.
PickSlab(mem, cache) ==
    With(mem, LAMBDA m :
        LET c == m.caches[cache]
        IN  IF c.slabs_partial # NULL
            THEN [slab |-> c.slabs_partial, m |-> m]
            ELSE IF c.slabs_empty # NULL
            THEN [slab |-> c.slabs_empty, m |-> m]
            ELSE With(allocate_slab(m, cache), LAMBDA a :
                     IF a.slab = NULL THEN a
                     ELSE [slab |-> a.slab,
                           m |-> add_slab_to_list(a.m, cache, a.slab)]))

\* slab_alloc: gives the object (NULL for failure) and the memory it leaves.
slab_alloc(mem, cache) ==
    With(PickSlab(mem, cache), LAMBDA r :
        IF r.slab = NULL THEN [obj |-> NULL, m |-> r.m]
        ELSE IF r.slab \notin DOMAIN r.m.slabs
        THEN [obj |-> NULL, m |-> [r.m EXCEPT !.wild = TRUE]]
        ELSE TakeObject(r.m, cache, r.slab))

\* The freed object put at the end of the slab's free list.
PushFreeAtTail(free_list, obj) == free_list \o <<obj>>

\* slab_free, lines 369-371: the freed object becomes the head of the slab's
\* free list.
PushFree(free_list, obj) == <<obj>> \o free_list

\* The inner while loop of slab_free: the slab of a list whose object area
\* holds obj.
RECURSIVE FindSlab(_, _, _, _, _)
FindSlab(m, cache, current, obj, fuel) ==
    IF current = NULL THEN [res |-> "absent", slab |-> NULL]
    ELSE IF current \notin DOMAIN m.slabs THEN [res |-> "wild", slab |-> NULL]
    ELSE LET slab_start == m.slabs[current].objects
             slab_end == slab_start + m.caches[cache].objects_per_slab
                                        * m.caches[cache].aligned_size
         IN  IF obj >= slab_start /\ obj < slab_end
             THEN [res |-> "found", slab |-> current]
             ELSE IF fuel = 0 THEN [res |-> "hung", slab |-> NULL]
             ELSE FindSlab(m, cache, m.b.blk_next[current], obj, fuel - 1)

\* The for loop of slab_free over the full, partial and empty lists.
RECURSIVE FindInLists(_, _, _, _)
FindInLists(m, cache, lists, obj) ==
    IF lists = <<>> THEN [res |-> "absent", slab |-> NULL]
    ELSE With(FindSlab(m, cache, m.caches[cache][Head(lists)], obj,
                       Cardinality(DOMAIN m.b.blk_next)), LAMBDA f :
             IF f.res = "absent" THEN FindInLists(m, cache, Tail(lists), obj)
             ELSE f)

slab_free(mem, cache, obj) ==
    With(mem, LAMBDA m :
      With(FindInLists(m, cache,
                       <<"slabs_full", "slabs_partial", "slabs_empty">>, obj),
           LAMBDA f :
        IF f.res = "absent" THEN m
        ELSE IF f.res = "wild" THEN [m EXCEPT !.wild = TRUE]
        ELSE IF f.res = "hung" THEN [m EXCEPT !.b.hung = TRUE]
        ELSE LET slab == f.slab
                 h == m.slabs[slab]
                 free_objects == h.free_objects + 1
                 new_state == IF free_objects = h.num_objects
                              THEN "SLAB_EMPTY" ELSE "SLAB_PARTIAL"
                 m1 == [m EXCEPT !.slabs[slab] =
                            [h EXCEPT !.free_list = PushFree(h.free_list, obj),
                                      !.free_objects = free_objects,
                                      !.state = new_state]]
                 m2 == IF h.state # new_state
                       THEN add_slab_to_list(
                                remove_slab_from_list(m1, slab), cache, slab)
                       ELSE m1
             IN  [m2 EXCEPT !.caches[cache].num_frees = @ + 1,
                            !.caches[cache].num_active_objects = @ - 1]))

\* slab_cache_shrink: gives the number of slabs freed and the memory.  A loop
\* that has run more often than there are slabs never ends: the head of
\* slabs_empty is not changing.
RECURSIVE ShrinkLoop(_, _, _, _)
ShrinkLoop(mem, cache, freed, fuel) ==
    With(mem, LAMBDA m :
        LET slab == m.caches[cache].slabs_empty
        IN  IF slab = NULL THEN [freed |-> freed, m |-> m]
            ELSE IF slab \notin DOMAIN m.slabs
            THEN [freed |-> freed, m |-> [m EXCEPT !.wild = TRUE]]
            ELSE IF fuel = 0
            THEN [freed |-> freed, m |-> [m EXCEPT !.b.hung = TRUE]]
            ELSE ShrinkLoop(free_slab(remove_slab_from_list(m, slab), slab),
                            cache, freed + 1, fuel - 1))

slab_cache_shrink(m, cache) ==
    ShrinkLoop(m, cache, 0, Cardinality(DOMAIN m.slabs) + 1)

SetMem(m) ==
    /\ caches' = m.caches
    /\ slabs' = m.slabs
    /\ wild' = m.wild
    /\ SetBuddy(m.b)

\* ------------------------------------------------------------ kmalloc.c
\* A pointer is the physical address behind it.  kmagic holds the addresses
\* whose first four bytes are BUDDY_MAGIC: kmalloc writes the word at the
\* start of a block, and the links of a free block or of a slab written at
\* that address replace it.
CacheSizes == <<32, 64, 128, 256, 512, 1024, 2048, 4096>>

K == [m |-> Mem, cache |-> kmalloc_cache, magic |-> kmagic]

\* slab_init: the eight caches, created in order of size.
RECURSIVE CreateCaches(_, _)
CreateCaches(k, i) ==
    IF i > Len(CacheSizes) THEN k
    ELSE With(slab_cache_create(k.m, CacheSizes[i]), LAMBDA r :
            CreateCaches([k EXCEPT !.m = r.m,
                                   !.cache = Put(@, CacheSizes[i], r.cache)],
                         i + 1))

slab_init(k) == CreateCaches([k EXCEPT !.cache = <<>>], 1)

\* slab_kmalloc for size <= 4096: the first cache that is large enough.
slab_kmalloc(k, size) ==
    LET fit == CHOOSE i \in 1 .. Len(CacheSizes) :
                   /\ size <= CacheSizes[i]
                   /\ \A j \in 1 .. i - 1 : size > CacheSizes[j]
        cache == k.cache[CacheSizes[fit]]
    IN  IF cache = NULL THEN [ptr |-> NULL, k |-> k]
        ELSE With(slab_alloc(k.m, cache), LAMBDA r :
                [ptr |-> r.obj, k |-> [k EXCEPT !.m = r.m]])

\* The blocks of a free list, from block on.
RECURSIVE ChainOf(_, _, _)
ChainOf(b, block, seen) ==
    IF block = NULL \/ block \in seen THEN seen
    ELSE ChainOf(b, b.blk_next[block], seen \cup {block})

\* The magic words a call has left: those not at the start of a free block
\* or of a slab, where links are written.
Unwritten(k, magic) ==
    {a \in magic :
        /\ a \notin DOMAIN k.m.slabs
        /\ \A order \in 0 .. BUDDY_MAX_ORDER :
              a \notin ChainOf(k.m.b, k.m.b.free_lists[order], {}) }

\* kmalloc: gives the pointer (NULL for failure) and the state it leaves.
kmalloc(k, size) ==
    IF size = 0 THEN [ptr |-> NULL, k |-> k]
    ELSE IF size <= 4096
    THEN With(slab_kmalloc(k, size), LAMBDA r :
            [ptr |-> r.ptr, k |-> [r.k EXCEPT !.magic = Unwritten(r.k, @)]])
    ELSE With(buddy_alloc_order(k.m.b,
                 buddy_get_order_for_size(size + SizeofBuddyHeader)), LAMBDA r :
            IF r.addr = 0 THEN [ptr |-> NULL, k |-> [k EXCEPT !.m.b = r.b]]
            ELSE With([k EXCEPT !.m.b = r.b], LAMBDA k1 :
                    [ptr |-> r.addr + SizeofBuddyHeader,
                     k |-> [k1 EXCEPT !.magic = Unwritten(k1, @) \cup {r.addr}]]))

is_buddy_allocation(k, ptr) == ptr - SizeofBuddyHeader \in k.magic

\* slab_kfree, lines 492-516: the first cache with a slab that holds obj.
RECURSIVE FindCache(_, _, _)
FindCache(k, obj, i) ==
    IF i > Len(CacheSizes) THEN [res |-> "absent", cache |-> NULL]
    ELSE With(k.cache[CacheSizes[i]], LAMBDA cache :
         IF cache = NULL THEN FindCache(k, obj, i + 1)
         ELSE With(FindInLists(k.m, cache,
                     <<"slabs_full", "slabs_partial", "slabs_empty">>, obj),
                LAMBDA f :
                  IF f.res = "absent" THEN FindCache(k, obj, i + 1)
                  ELSE [res |-> f.res, cache |-> cache]))

slab_kfree(k, obj) ==
    With(FindCache(k, obj, 1), LAMBDA f :
        IF f.res = "found" THEN [k EXCEPT !.m = slab_free(k.m, f.cache, obj)]
        ELSE IF f.res = "wild" THEN [k EXCEPT !.m.wild = TRUE]
        ELSE IF f.res = "hung" THEN [k EXCEPT !.m.b.hung = TRUE]
        ELSE [k EXCEPT !.m.b = buddy_free(k.m.b, obj)])

kfree(k, ptr) ==
    With(IF is_buddy_allocation(k, ptr)
         THEN [k EXCEPT !.m.b = buddy_free(k.m.b, ptr - SizeofBuddyHeader)]
         ELSE slab_kfree(k, ptr),
         LAMBDA k1 : [k1 EXCEPT !.magic = Unwritten(k1, @)])

\* krealloc; header_size is what get_buddy_size reads for a buddy block.
krealloc(k, ptr, new_size, header_size) ==
    IF ptr = NULL THEN kmalloc(k, new_size)
    ELSE IF new_size = 0 THEN [ptr |-> NULL, k |-> kfree(k, ptr)]
    ELSE LET old_size == IF is_buddy_allocation(k, ptr) THEN header_size
                         ELSE new_size
         IN  IF new_size <= old_size THEN [ptr |-> ptr, k |-> k]
             ELSE With(kmalloc(k, new_size), LAMBDA r :
                     IF r.ptr = NULL THEN r
                     ELSE [ptr |-> r.ptr, k |-> kfree(r.k, ptr)])

RECURSIVE ListLen(_, _, _)
ListLen(b, block, fuel) ==
    IF block = NULL \/ fuel = 0 THEN 0
    ELSE 1 + ListLen(b, b.blk_next[block], fuel - 1)

RECURSIVE FreeFrom(_, _)
FreeFrom(b, order) ==
    IF order > BUDDY_MAX_ORDER THEN 0
    ELSE ListLen(b, b.free_lists[order], Cardinality(DOMAIN b.blk_next))
             * BUDDY_SIZE_FOR_ORDER(order)
         + FreeFrom(b, order + 1)

buddy_get_free_memory(b) == FreeFrom(b, 0)

buddy_get_used_memory(b) == b.total_size - buddy_get_free_memory(b)

SetK(k) ==
    /\ SetMem(k.m)
    /\ kmalloc_cache' = k.cache
    /\ kmagic' = k.magic

\* -------------------------------------------------------------- pmm.c
\* The bitmap is the set of page indices whose bit is set.  A uint32_t that
\* wrapped below 0 is kept as the negative number 2^32 smaller.
Pmm == [bitmap |-> page_bitmap, total_pages |-> pmm_total_pages,
        used_pages |-> used_pages]

PAGE_ALIGN_DOWN(addr) == (addr \div PAGE_SIZE) * PAGE_SIZE
PAGE_ALIGN_UP(addr) == ((addr + PAGE_SIZE - 1) \div PAGE_SIZE) * PAGE_SIZE
IS_PAGE_ALIGNED(addr) == addr % PAGE_SIZE = 0

\* (addr - PHYS_FREE_START) / PAGE_SIZE in uint64_t, cut to uint32_t: below
\* PHYS_FREE_START the difference wraps.
addr_to_page(addr) ==
    IF addr >= PHYS_FREE_START THEN (addr - PHYS_FREE_START) \div PAGE_SIZE
    ELSE 0 - ((PHYS_FREE_START - addr + PAGE_SIZE - 1) \div PAGE_SIZE)

page_to_addr(page) == PHYS_FREE_START + page * PAGE_SIZE

\* page >= total_pages for a uint32_t page.
PastTotal(q, page) == page < 0 \/ page >= q.total_pages

\* The index the loop of pmm_mark_region_used / _free stops before.
RegionEnd(q, end_page) ==
    IF PastTotal(q, end_page) THEN q.total_pages ELSE end_page

\* [start, end) as the two functions narrow it; <<0, 0>> when they return
\* before their loop.
RegionPages(q, start, end) ==
    LET e1 == PAGE_ALIGN_UP(end)
        s1 == PAGE_ALIGN_DOWN(start)
        s2 == IF s1 < PHYS_FREE_START THEN PHYS_FREE_START ELSE s1
        s3 == IF e1 > PHYS_MEMORY_END THEN PHYS_MEMORY_END ELSE s2
    IN  IF s3 >= e1 THEN <<0, 0>>
        ELSE <<addr_to_page(s3), RegionEnd(q, addr_to_page(e1))>>

\* A marking that counts every page of the region, set before or not.
MarkCountingAll(q, start, end) ==
    LET r == RegionPages(q, start, end)
    IN  [q EXCEPT !.bitmap = @ \cup (r[1] .. r[2] - 1),
                  !.used_pages = @ + Cardinality(r[1] .. r[2] - 1)]

pmm_mark_region_used(q, start, end) ==
    LET r == RegionPages(q, start, end)
        fresh == {i \in r[1] .. r[2] - 1 : i \notin q.bitmap}
    IN  [q EXCEPT !.bitmap = @ \cup fresh,
                  !.used_pages = @ + Cardinality(fresh)]

pmm_mark_region_free(q, start, end) ==
    LET r == RegionPages(q, start, end)
        set == {i \in r[1] .. r[2] - 1 : i \in q.bitmap}
    IN  [q EXCEPT !.bitmap = @ \ set,
                  !.used_pages = @ - Cardinality(set)]

pmm_init(q) ==
    LET q0 == [q EXCEPT !.total_pages =
                            (PHYS_MEMORY_END - PHYS_FREE_START) \div PAGE_SIZE,
                        !.bitmap = {}, !.used_pages = 0]
        q1 == pmm_mark_region_used(q0, PHYS_LOW_MEM_START, PHYS_LOW_MEM_END)
        q2 == pmm_mark_region_used(q1, PHYS_KERNEL_START, PHYS_KERNEL_END)
        q3 == pmm_mark_region_used(q2, PHYS_HEAP_START, PHYS_HEAP_END)
    IN  pmm_mark_region_used(q3, PHYS_BITMAP_START, PHYS_BITMAP_END)

\* The page the scan starts at, whatever its bit.
FirstPage(q, i) == i

\* The first page from i on whose bit is clear; total_pages when there is none.
RECURSIVE FirstFree(_, _)
FirstFree(q, i) ==
    IF i >= q.total_pages THEN q.total_pages
    ELSE IF i \notin q.bitmap THEN i
    ELSE FirstFree(q, i + 1)

\* pmm_alloc_page: gives the address returned (0 for none) and the state.
pmm_alloc_page(q) ==
    LET i == FirstFree(q, 0)
    IN  IF i >= q.total_pages THEN [addr |-> 0, q |-> q]
        ELSE [addr |-> page_to_addr(i),
              q |-> [q EXCEPT !.bitmap = @ \cup {i},
                              !.used_pages = @ + 1]]

pmm_free_page(q, phys_addr) ==
    IF phys_addr < PHYS_LOW_MEM_START \/ phys_addr >= PHYS_HEAP_END THEN q
    ELSE IF ~IS_PAGE_ALIGNED(phys_addr) THEN q
    ELSE LET page == addr_to_page(phys_addr)
         IN  IF PastTotal(q, page) THEN q
             ELSE IF page \in q.bitmap
             THEN [q EXCEPT !.bitmap = @ \ {page}, !.used_pages = @ - 1]
             ELSE q

\* pmm_alloc_pages, lines 119-136: the scan for count clear bits in a row.
RECURSIVE ScanRun(_, _, _, _, _)
ScanRun(q, i, contiguous, start, npages) ==
    IF i >= q.total_pages THEN [addr |-> 0, q |-> q]
    ELSE IF i \in q.bitmap THEN ScanRun(q, i + 1, 0, start, npages)
    ELSE LET st == IF contiguous = 0 THEN i ELSE start
         IN  IF contiguous + 1 = npages
             THEN [addr |-> page_to_addr(st),
                   q |-> [q EXCEPT !.bitmap = @ \cup (st .. st + npages - 1),
                                   !.used_pages = @ + npages]]
             ELSE ScanRun(q, i + 1, contiguous + 1, st, npages)

pmm_alloc_pages(q, npages) ==
    IF npages = 0 THEN [addr |-> 0, q |-> q]
    ELSE IF npages = 1 THEN pmm_alloc_page(q)
    ELSE ScanRun(q, 0, 0, 0, npages)

\* pmm_free_pages: pmm_free_page(phys_addr + (i + PAGE_SIZE)) for i < npages.
RECURSIVE pmm_free_pages_from(_, _, _, _)
pmm_free_pages_from(q, phys_addr, i, npages) ==
    IF i >= npages THEN q
    ELSE pmm_free_pages_from(pmm_free_page(q, phys_addr + (i + PAGE_SIZE)),
                             phys_addr, i + 1, npages)

pmm_free_pages(q, phys_addr, npages) == pmm_free_pages_from(q, phys_addr, 0, npages)

pmm_get_total_pages(q) == q.total_pages
pmm_get_used_pages(q) == q.used_pages
pmm_get_free_pages(q) == q.total_pages - q.used_pages

SetPmm(q) ==
    /\ page_bitmap' = q.bitmap
    /\ pmm_total_pages' = q.total_pages
    /\ used_pages' = q.used_pages

\* -------------------------------------------------------------- vmm.c
\* A page-table entry is the integer phys_addr | flags.  A virtual address is
\* kept as its four table indices and its offset in the page; every frame
\* that is read as a table has MaxIdx + 1 entries.
Idx == 0 .. MaxIdx

Vm == [mem |-> vmem, root |-> current_pml4_phys, q |-> Pmm]

Has(entry, flag) == (entry \div flag) % 2 = 1

pte_get_address(pte) == (pte \div PAGE_SIZE) * PAGE_SIZE

\* phys_addr | flags, bit by bit over the low 12 bits.
RECURSIVE OrBits(_, _, _)
OrBits(a, b, bit) ==
    IF bit >= PAGE_SIZE THEN 0
    ELSE (IF Has(a, bit) \/ Has(b, bit) THEN bit ELSE 0)
         + OrBits(a, b, 2 * bit)

BitOr(phys_addr, flags) ==
    pte_get_address(phys_addr) + OrBits(phys_addr % PAGE_SIZE, flags, 1)

ZeroTable == [i \in Idx |-> 0]

\* memset(get_table(frame), 0, PAGE_SIZE)
ZeroFrame(mem, frame) ==
    [f \in DOMAIN mem \cup {frame} |-> IF f = frame THEN ZeroTable ELSE mem[f]]

\* "Get or create" of one level of vmm_map_page: the table the entry
\* table[i] leads to, allocated and linked when the entry is not present.
NextTable(vm, table, i) ==
    IF ~Has(vm.mem[table][i], PAGE_PRESENT)
    THEN With(pmm_alloc_page(vm.q), LAMBDA r :
            IF r.addr = 0 THEN [err |-> "E_NOMEM", table |-> 0, vm |-> vm]
            ELSE [err |-> "E_OK", table |-> r.addr,
                  vm |-> [vm EXCEPT
                      !.q = r.q,
                      !.mem = [ZeroFrame(vm.mem, r.addr) EXCEPT ![table][i] =
                                  BitOr(BitOr(r.addr, PAGE_PRESENT), PAGE_WRITE)]]])
    ELSE [err |-> "E_OK", table |-> pte_get_address(vm.mem[table][i]), vm |-> vm]

\* The leaf write at the end of vmm_map_page.
LeafEntry(phys_addr, flags) == BitOr(phys_addr, flags)

vmm_map_page(vm, v, phys_addr, flags) ==
    IF v.off # 0 \/ ~IS_PAGE_ALIGNED(phys_addr) THEN [err |-> "E_INVALID", vm |-> vm]
    ELSE With(NextTable(vm, vm.root, v.pml4_i), LAMBDA a :
         IF a.err # "E_OK" THEN [err |-> a.err, vm |-> a.vm]
         ELSE With(NextTable(a.vm, a.table, v.pdpt_i), LAMBDA b :
         IF b.err # "E_OK" THEN [err |-> b.err, vm |-> b.vm]
         ELSE With(NextTable(b.vm, b.table, v.pd_i), LAMBDA c :
         IF c.err # "E_OK" THEN [err |-> c.err, vm |-> c.vm]
         ELSE [err |-> "E_OK",
               vm |-> [c.vm EXCEPT !.mem[c.table][v.pt_i] =
                                       LeafEntry(phys_addr, flags)]])))

\* The walk of vmm_unmap_page: the page table of v, or 0 when an entry on the
\* way is not present.
WalkToPt(vm, v) ==
    LET pml4e == vm.mem[vm.root][v.pml4_i]
        pdpte == vm.mem[pte_get_address(pml4e)][v.pdpt_i]
        pde == vm.mem[pte_get_address(pdpte)][v.pd_i]
    IN  IF ~Has(pml4e, PAGE_PRESENT) THEN 0
        ELSE IF ~Has(pdpte, PAGE_PRESENT) THEN 0
        ELSE IF ~Has(pde, PAGE_PRESENT) THEN 0
        ELSE pte_get_address(pde)

vmm_unmap_page(vm, v) ==
    IF v.off # 0 THEN [err |-> "E_INVALID", vm |-> vm]
    ELSE With(WalkToPt(vm, v), LAMBDA pt :
         IF pt = 0 THEN [err |-> "E_NOTFOUND", vm |-> vm]
         ELSE IF ~Has(vm.mem[pt][v.pt_i], PAGE_PRESENT)
         THEN [err |-> "E_NOTFOUND", vm |-> vm]
         ELSE [err |-> "E_OK", vm |-> [vm EXCEPT !.mem[pt][v.pt_i] = 0]])

vmm_get_physical(vm, v) ==
    LET pml4e == vm.mem[vm.root][v.pml4_i]
        pdpte == vm.mem[pte_get_address(pml4e)][v.pdpt_i]
        pde == vm.mem[pte_get_address(pdpte)][v.pd_i]
        pte == vm.mem[pte_get_address(pde)][v.pt_i]
    IN  IF ~Has(pml4e, PAGE_PRESENT) THEN 0
        ELSE IF ~Has(pdpte, PAGE_PRESENT) THEN 0
        ELSE IF ~Has(pde, PAGE_PRESENT) THEN 0
        ELSE IF Has(pde, PAGE_HUGE)
        THEN pte_get_address(pde) + v.pt_i * PAGE_SIZE + v.off
        ELSE IF ~Has(pte, PAGE_PRESENT) THEN 0
        ELSE pte_get_address(pte) + v.off

SetVm(vm) ==
    /\ vmem' = vm.mem
    /\ current_pml4_phys' = vm.root
    /\ SetPmm(vm.q)

\* ------------------------------------------------------------ driver.c
\* A driver_t is a record of its name, priority, depends_on ("" for none) and
\* init ("none" for a null pointer, else what the function returns); its
\* status is drv_status[name].
DriverNames == {"a", "b", "c"}

\* driver_get_by_name over a registry: the first driver of that name, as a
\* set (empty for NULL).
driver_get_by_name(registry, name) ==
    LET hits == {i \in 1 .. Len(registry) : registry[i].name = name}
    IN  IF hits = {} THEN {}
        ELSE {registry[CHOOSE i \in hits : \A j \in hits : i <= j]}

\* A dependency check that accepts a dependency in any state.
DependencyRegistered(registry, status, driver) ==
    \/ driver.depends_on = ""
    \/ driver_get_by_name(registry, driver.depends_on) # {}

driver_dependencies_met(registry, status, driver) ==
    \/ driver.depends_on = ""
    \/ \E dep \in driver_get_by_name(registry, driver.depends_on) :
          status[dep.name] \in {"INITIALIZED", "ENABLED"}

\* driver_init_all, lines 142-154: insert drv in the queue sorted by priority,
\* after the drivers of the same priority.
RECURSIVE InsertPos(_, _, _)
InsertPos(queue, drv, pos) ==
    IF pos <= Len(queue) /\ queue[pos].priority <= drv.priority
    THEN InsertPos(queue, drv, pos + 1)
    ELSE pos

\* The queue in registration order, priorities not looked at.
InsertLast(queue, drv) == queue \o <<drv>>

InsertSorted(queue, drv) ==
    LET pos == InsertPos(queue, drv, 1)
    IN  SubSeq(queue, 1, pos - 1) \o <<drv>> \o SubSeq(queue, pos, Len(queue))

\* Every driver marked INITIALIZED, whatever init returned.
AlwaysInitialized(err) == "INITIALIZED"

\* driver_init_all, lines 194-213: err is E_OK when init is null, else what
\* init returned; the status the driver gets.
StatusAfter(err) == IF err \in {"none", "E_OK"} THEN "INITIALIZED" ELSE "FAILED"

\* A bound of one pass.
OnePass(driver_count) == 1

\* driver_init_all: max_passes = driver_count * 2
MaxPasses(driver_count) == driver_count * 2

RECURSIVE SortedQueue(_, _)
SortedQueue(registry, i) ==
    IF i = 0 THEN <<>>
    ELSE InsertSorted(SortedQueue(registry, i - 1), registry[i])

\* --------------------------------------------------------------- Init
NoLocal == [arg |-> 0, cur |-> 0, size |-> 0, out |-> <<>>,
            ret |-> "none", new_task |-> NULL]

\* task_init, then scheduler_init: the idle task is created, RUNNING and
\* current; interrupts are still off (kernel.c:135-136).
InitSched ==
    /\ created = {0}
    /\ state = [t \in Task |-> IF t = 0 THEN "RUNNING" ELSE "NONE"]
    /\ next = [t \in Task |-> NULL]
    /\ time_slice = [t \in Task |-> IF t = 0 THEN TIME_SLICE_TICKS ELSE 0]
    /\ wake_time = [t \in Task |-> 0]
    /\ current_task = 0
    /\ idle_task = 0
    /\ ready_queue_head = NULL
    /\ ready_queue_tail = NULL
    /\ sleep_queue_head = NULL
    /\ pit_ticks = 0
    /\ irq_enabled = FALSE
    /\ hung = FALSE
    /\ pc = [t \in Task |-> IF t = 0 THEN "idle" ELSE "none"]
    /\ local = [t \in Task |-> NoLocal]

\* tty_init
InitTty ==
    /\ buffer = [i \in 0 .. TTY_BUFFER_SIZE - 1 |-> 0]
    /\ read_pos = 0
    /\ write_pos = 0
    /\ count = 0
    /\ waiting_task = NULL
    /\ keys = 0
    /\ pending = <<>>
    /\ expect = [t \in Task |-> <<>>]
    /\ missed = [t \in Task |-> FALSE]
    /\ last_read = [t \in Task |-> <<>>]

\* Where tty_read stands between a scan that found no newline and the next
\* scan: about to store waiting_task, or inside task_block.
AfterScan(t) ==
    \/ pc[t] \in {"r_wait", "b_state", "b_y1"}
    \/ pc[t] \in {"tick_check", "tick_pick", "tick_switch"}
         /\ local[t].ret = "r_scan"

\* ------------------------------------------------- kernel and interrupts
\* kernel.c:139-141: task_create followed by scheduler_add_task, before
\* interrupts are enabled.  pids are handed out in order (next_pid).
KernelSpawn ==
    /\ ~irq_enabled
    /\ \E t \in UserTask :
        /\ t \notin created
        /\ \A u \in UserTask : u < t => u \in created
        /\ created' = created \cup {t}
        /\ LET s0 == [Sched EXCEPT !.state[t] = "READY",
                                   !.time_slice[t] = TIME_SLICE_TICKS,
                                   !.next[t] = NULL, !.wake_time[t] = 0]
           IN  SetSched(scheduler_add_task(s0, t))
        /\ pc' = [pc EXCEPT ![t] = "run"]
    /\ UNCHANGED <<idle_task, pit_ticks, irq_enabled, local>>
    /\ UNCHANGED <<tvars, gvars, slices, destroyed, bvars, ovars>>

\* kernel.c:155: idt_enable_interrupts
EnableInterrupts ==
    /\ ~irq_enabled
    /\ irq_enabled' = TRUE
    /\ UNCHANGED <<created, state, next, time_slice, wake_time, current_task,
                   idle_task, ready_queue_head, ready_queue_tail,
                   sleep_queue_head, pit_ticks, hung, pc, local>>
    /\ UNCHANGED <<tvars, gvars, slices, destroyed, bvars, ovars>>

\* pit.c:68-75: pit_handler: pit_ticks++, then scheduler_tick.  With log set,
\* the task whose time slice this tick used up is appended to slices.
PitTick(bound, log) ==
    /\ irq_enabled /\ ~hung
    /\ pit_ticks < bound
    /\ pit_ticks' = pit_ticks + 1
    /\ SetSched(scheduler_tick(Sched, pit_ticks + 1, idle_task))
    /\ slices' = IF log /\ time_slice[current_task] <= 1
                 THEN Append(slices, current_task) ELSE slices
    /\ UNCHANGED <<created, idle_task, irq_enabled, pc, local>>
    /\ UNCHANGED <<tvars, gvars, destroyed, bvars, ovars>>

PitHandler == PitTick(MaxTicks, FALSE)

\* keyboard.c:54-91: keyboard_handler hands a character to tty_input_char;
\* bound is the number of key presses followed and typed the keys pressed.
KeyboardInput(bound, typed) ==
    /\ irq_enabled /\ ~hung
    /\ keys < bound
    /\ \E c \in typed :
        LET r == tty_input_char(Tty, Sched, c)
        IN  /\ SetTty(r.tty)
            /\ SetSched(r.s)
            /\ pending' = IF c = BS
                          THEN IF Len(pending) > 0
                               THEN SubSeq(pending, 1, Len(pending) - 1)
                               ELSE pending
                          ELSE Append(pending, c)
            /\ missed' = [t \in Task |->
                             missed[t] \/ (c = NL /\ AfterScan(t))]
    /\ keys' = keys + 1
    /\ UNCHANGED <<created, idle_task, pit_ticks, irq_enabled, pc, local,
                   expect, last_read, slices, destroyed, bvars, ovars>>

KeyboardHandler == KeyboardInput(MaxKeys, Chars)

\* ------------------------------------------------------------ task code
\* A task's code advances only while the task is the one on the CPU.
Runs(t, at) ==
    /\ irq_enabled /\ ~hung
    /\ t \in UserTask
    /\ current_task = t
    /\ pc[t] = at

Goto(t, to) == pc' = [pc EXCEPT ![t] = to]

SchedOnly ==
    UNCHANGED <<created, idle_task, pit_ticks, irq_enabled, tvars, gvars,
                slices, destroyed, bvars, ovars>>

\* task_yield (task.c:335-340), also as called by task_block and task_exit:
\* time_slice = 0.  ret is where the code goes on when scheduler_tick
\* returns: task_exit yields again, tty_read scans again.
YieldSlice(t) ==
    \E p \in {<<"run", "run">>, <<"b_y1", "r_scan">>, <<"x_y1", "x_y1">>} :
        /\ Runs(t, p[1])
        /\ SetSched([Sched EXCEPT !.time_slice[current_task] = 0])
        /\ Goto(t, "tick_check")
        /\ local' = [local EXCEPT ![t].ret = p[2]]
        /\ SchedOnly

\* scheduler_tick called by the task: if (!current_task) return;
\* scheduler_check_sleeping_tasks()
TickCheck(t) ==
    /\ Runs(t, "tick_check")
    /\ LET s0 == scheduler_check_sleeping_tasks(Sched, pit_ticks)
       IN  /\ SetSched(s0)
           /\ Goto(t, "tick_pick")
    /\ UNCHANGED local
    /\ SchedOnly

\* scheduler_tick called by the task: lines 290-300
TickPickStep(t) ==
    /\ Runs(t, "tick_pick")
    /\ LET pk == TickPick(Sched, idle_task)
       IN  /\ SetSched(pk.s)
           /\ IF pk.expired
              THEN /\ Goto(t, "tick_switch")
                   /\ local' = [local EXCEPT ![t].new_task = pk.new_task]
              ELSE /\ Goto(t, local[t].ret)
                   /\ local' = [local EXCEPT ![t].ret = "none"]
    /\ SchedOnly

\* scheduler_tick called by the task: lines 302-331, old_task being the task
TickSwitchStep(t) ==
    /\ Runs(t, "tick_switch")
    /\ SetSched(TickSwitch(Sched, t, local[t].new_task))
    /\ Goto(t, local[t].ret)
    /\ local' = [local EXCEPT ![t].ret = "none", ![t].new_task = NULL]
    /\ SchedOnly

\* task_block (task.c:342-351): state = BLOCKED, then task_yield
BlockState(t) ==
    /\ Runs(t, "b_state")
    /\ SetSched([Sched EXCEPT !.state[current_task] = "BLOCKED"])
    /\ Goto(t, "b_y1")
    /\ UNCHANGED local
    /\ SchedOnly

\* task_sleep (task.c:363-397), statement by statement
SleepCall(t) ==
    /\ Runs(t, "run")
    /\ \E n \in 1 .. MaxSleep :
        /\ n # 0 /\ current_task # idle_task
        /\ local' = [local EXCEPT ![t] = [NoLocal EXCEPT !.arg = n,
                                                          !.cur = pit_ticks]]
    /\ Goto(t, "s_wake")
    /\ UNCHANGED <<state, next, time_slice, wake_time, current_task,
                   ready_queue_head, ready_queue_tail, sleep_queue_head, hung>>
    /\ SchedOnly

SleepStep(t) ==
    /\ \/ /\ Runs(t, "s_wake")
          /\ SetSched([Sched EXCEPT !.wake_time[current_task] =
                                        local[t].cur + local[t].arg])
          /\ Goto(t, "s_state")
       \/ /\ Runs(t, "s_state")
          /\ SetSched([Sched EXCEPT !.state[current_task] = "SLEEPING"])
          /\ Goto(t, "s_link1")
       \/ /\ Runs(t, "s_link1")
          /\ SetSched([Sched EXCEPT !.next[current_task] = sleep_queue_head])
          /\ Goto(t, "s_link2")
       \/ /\ Runs(t, "s_link2")
          /\ SetSched([Sched EXCEPT !.sleep_queue_head = current_task])
          /\ Goto(t, "s_ts")
    /\ UNCHANGED local
    /\ SchedOnly

\* task_sleep: time_slice = 0; scheduler_tick()
SleepSlice(t) ==
    /\ Runs(t, "s_ts")
    /\ SetSched([Sched EXCEPT !.time_slice[current_task] = 0])
    /\ Goto(t, "tick_check")
    /\ local' = [local EXCEPT ![t].ret = "s_ret"]
    /\ SchedOnly

SleepReturn(t) ==
    /\ Runs(t, "s_ret")
    /\ Goto(t, "run")
    /\ UNCHANGED <<state, next, time_slice, wake_time, current_task,
                   ready_queue_head, ready_queue_tail, sleep_queue_head, hung,
                   local>>
    /\ SchedOnly

\* task_exit (task.c:22-36): state = TERMINATED, scheduler_remove_task,
\* then task_yield for ever
ExitState(t) ==
    /\ Runs(t, "run")
    /\ SetSched([Sched EXCEPT !.state[current_task] = "TERMINATED"])
    /\ Goto(t, "x_remove")
    /\ UNCHANGED local
    /\ SchedOnly

ExitRemove(t) ==
    /\ Runs(t, "x_remove")
    /\ SetSched(scheduler_remove_task(Sched, current_task))
    /\ Goto(t, "x_y1")
    /\ UNCHANGED local
    /\ SchedOnly

\* tty_read (tty.c:65-122)
ReadSizes == {2, 256}   \* a one-byte buffer plus NUL, and shell.c's line buffer

ReadCall(t) ==
    /\ Runs(t, "run")
    /\ \E sz \in ReadSizes :
        local' = [local EXCEPT ![t] = [NoLocal EXCEPT !.size = sz]]
    /\ Goto(t, "r_scan")
    /\ UNCHANGED <<state, next, time_slice, wake_time, current_task,
                   ready_queue_head, ready_queue_tail, sleep_queue_head, hung>>
    /\ SchedOnly

ReadScan(t) ==
    /\ Runs(t, "r_scan")
    /\ Goto(t, IF HasNewline(Tty) THEN "r_copy" ELSE "r_wait")
    /\ missed' = [missed EXCEPT ![t] = FALSE]
    /\ UNCHANGED <<state, next, time_slice, wake_time, current_task,
                   ready_queue_head, ready_queue_tail, sleep_queue_head, hung,
                   local>>
    /\ UNCHANGED <<created, idle_task, pit_ticks, irq_enabled, tvars,
                   keys, pending, expect, last_read, slices, destroyed, bvars, ovars>>

\* tty->waiting_task = current
ReadWait(t) ==
    /\ Runs(t, "r_wait")
    /\ waiting_task' = t
    /\ Goto(t, "b_state")
    /\ UNCHANGED <<state, next, time_slice, wake_time, current_task,
                   ready_queue_head, ready_queue_tail, sleep_queue_head, hung,
                   local>>
    /\ UNCHANGED <<created, idle_task, pit_ticks, irq_enabled,
                   buffer, read_pos, write_pos, count, gvars,
                   slices, destroyed, bvars, ovars>>

ReadCopy(t) ==
    /\ Runs(t, "r_copy")
    /\ IF count > 0 /\ Len(local[t].out) < local[t].size - 1
       THEN LET r == ReadCopyStep(Tty, local[t].out)
            IN  /\ SetTty(r.tty)
                /\ local' = [local EXCEPT ![t].out = r.out]
                /\ Goto(t, IF r.brk THEN "r_done" ELSE "r_copy")
                /\ IF pending # <<>>
                   THEN /\ expect' = [expect EXCEPT ![t] = Append(@, Head(pending))]
                        /\ pending' = Tail(pending)
                   ELSE UNCHANGED <<expect, pending>>
       ELSE /\ Goto(t, "r_done")
            /\ UNCHANGED <<tvars, local, expect, pending>>
    /\ UNCHANGED <<state, next, time_slice, wake_time, current_task,
                   ready_queue_head, ready_queue_tail, sleep_queue_head, hung>>
    /\ UNCHANGED <<created, idle_task, pit_ticks, irq_enabled, keys, missed,
                   last_read, slices, destroyed, bvars, ovars>>

\* buffer[bytes_read] = '\0'; return bytes_read
ReadDone(t) ==
    /\ Runs(t, "r_done")
    /\ last_read' = [last_read EXCEPT ![t] = local[t].out]
    /\ expect' = [expect EXCEPT ![t] = <<>>]
    /\ Goto(t, "run")
    /\ local' = [local EXCEPT ![t] = NoLocal]
    /\ UNCHANGED <<state, next, time_slice, wake_time, current_task,
                   ready_queue_head, ready_queue_tail, sleep_queue_head, hung>>
    /\ UNCHANGED <<created, idle_task, pit_ticks, irq_enabled, tvars, keys,
                   pending, missed, slices, destroyed, bvars, ovars>>

TaskStep(t) ==
    \/ YieldSlice(t) \/ TickCheck(t) \/ TickPickStep(t) \/ TickSwitchStep(t)
    \/ BlockState(t)
    \/ SleepCall(t) \/ SleepStep(t) \/ SleepSlice(t) \/ SleepReturn(t)
    \/ ExitState(t) \/ ExitRemove(t)
    \/ ReadCall(t) \/ ReadScan(t) \/ ReadWait(t) \/ ReadCopy(t) \/ ReadDone(t)

vars == <<svars, tvars, gvars, slices, destroyed, bvars, ovars>>

\* Before buddy_init has run (kernel.c:85) the allocator holds nothing.
InitBuddy ==
    /\ g_buddy_allocator = FALSE
    /\ base_addr = 0
    /\ total_size = 0
    /\ total_pages = 0
    /\ free_lists = [k \in 0 .. BUDDY_MAX_ORDER |-> NULL]
    /\ blk_next = <<>>
    /\ blk_prev = <<>>
    /\ allocation_bitmap = {}
    /\ splits = 0
    /\ merges = 0
    /\ held = {}
    /\ ops = 0
    /\ calls = <<>>

\* Before slab_init and slab_cache_create there is no cache.
InitSlab ==
    /\ caches = <<>>
    /\ slabs = <<>>
    /\ wild = FALSE
    /\ live = {}
    /\ slab_calls = <<>>
    /\ slab_ops = 0

\* Before pmm_init (kernel.c:81) the statics of pmm.c are zero.
InitPmm ==
    /\ pmm_ready = FALSE
    /\ page_bitmap = {}
    /\ pmm_total_pages = 0
    /\ used_pages = 0
    /\ pmm_held = {}
    /\ pmm_last = [op |-> "none"]
    /\ pmm_ops = 0

\* Before vmm_init (kernel.c) current_pml4_phys is 0 and no table is read.
InitVmm ==
    /\ current_pml4_phys = 0
    /\ vmem = <<>>
    /\ vmm_calls = <<>>
    /\ vmm_got = [op |-> "none"]
    /\ vmm_ops = 0

\* Before slab_init the kmalloc_cache_* pointers are NULL.
InitKmalloc ==
    /\ kmalloc_cache = <<>>
    /\ kmagic = {}
    /\ klive = {}
    /\ kcalls = <<>>
    /\ kops = 0

\* After driver_registry_init.
\* ------------------------------------------------------- the NVMe driver
\* nvme.h: the queue sizes (64 and 1024 in the source) and the number of
\* namespaces nvme_init enumerates (16 in the source).
NVME_ADMIN_QUEUE_SIZE == 2
NVME_IO_QUEUE_SIZE == 3
NVME_MAX_NAMESPACES == 1
\* The iterations of the three polling loops (1000000 and 5000000 in the
\* source), the namespaces a controller reports, and the block operations
\* of a run.
PollBudget == 2
MaxNn == 1
MaxBlockOps == 4

\* An nvme_queue_pair_t before nvme_init_queue_pair: nvme_ctrl is static.
ZeroQp ==
    [sq |-> <<>>, cq |-> <<>>, sq_size |-> 0, cq_size |-> 0, sq_tail |-> 0,
     cq_head |-> 0, cq_phase |-> 0]

\* nvme_init_queue_pair with both allocations successful: both queues are
\* zeroed, the indices start at 0 and the phase at 1.  A submission entry is
\* kept as its command id, a completion entry as its cid and status word.
nvme_init_queue_pair(sq_size, cq_size) ==
    [sq |-> [i \in 0 .. sq_size - 1 |-> 0],
     cq |-> [i \in 0 .. cq_size - 1 |-> [cid |-> 0, status |-> 0]],
     sq_size |-> sq_size, cq_size |-> cq_size, sq_tail |-> 0, cq_head |-> 0,
     cq_phase |-> 1]

\* The doorbell registers nvme_submit_command and nvme_wait_completion write.
SqDoorbell(is_admin) == IF is_admin THEN 4096 ELSE 4096 + 2 * 4
CqDoorbell(is_admin) == IF is_admin THEN 4096 + 4 ELSE 4096 + 2 * 4 + 4
Doorbells == {SqDoorbell(a) : a \in BOOLEAN} \cup {CqDoorbell(a) : a \in BOOLEAN}

\* nvme_submit_command, the queue pair's part.
nvme_submit_command(qp, cid) ==
    [qp EXCEPT !.sq[qp.sq_tail] = cid,
               !.sq_tail = (qp.sq_tail + 1) % qp.sq_size]

\* (cqe->status >> 0) & 1 and (cqe->status >> 1) & 0x7FF.
PhaseOf(status) == status % 2
WholeStatus(status) == status \div 2
StatusCode(status) == (status \div 2) % 2048

\* !qp->cq_phase.
SamePhase(phase) == phase
NextPhase(phase) == IF phase = 0 THEN 1 ELSE 0

\* The two tests of one iteration of nvme_wait_completion.
CqeMatches(qp, cid) ==
    /\ PhaseOf(qp.cq[qp.cq_head].status) = qp.cq_phase
    /\ qp.cq[qp.cq_head].cid = cid

\* What the iteration does to the queue pair once both tests pass.
ConsumeCqe(qp) ==
    LET head == (qp.cq_head + 1) % qp.cq_size
    IN  [qp EXCEPT !.cq_head = head,
                   !.cq_phase = IF head = 0 THEN NextPhase(@) ELSE @]

\* (status == NVME_SC_SUCCESS) ? E_OK : E_HARDWARE
WaitResult(status) ==
    IF StatusCode(status) = 0 THEN "E_OK" ELSE "E_HARDWARE"

\* What nvme_init returns when the ready bit is still clear after the
\* second polling loop, and when an admin command did not return E_OK.
NotReadyResult == "E_HARDWARE"
AdminFailedResult(err) == "E_HARDWARE"

QueueOf(ctrl, is_admin) ==
    IF is_admin THEN ctrl.admin_queue ELSE ctrl.io_queue
WithQueue(ctrl, is_admin, qp) ==
    IF is_admin THEN [ctrl EXCEPT !.admin_queue = qp]
    ELSE [ctrl EXCEPT !.io_queue = qp]
QueueName(is_admin) == IF is_admin THEN "admin" ELSE "io"

\* cmd->cdw0 |= (ctrl->command_id++ << 16) and nvme_submit_command(...),
\* the controller structure's part; command_id is a uint16_t.
IssueCommand(ctrl, is_admin) ==
    [WithQueue(ctrl, is_admin,
               nvme_submit_command(QueueOf(ctrl, is_admin), ctrl.command_id))
     EXCEPT !.command_id = (ctrl.command_id + 1) % 65536]

\* The status words a controller posts, without the phase bit: success, a
\* status code, and success with the do-not-retry bit (bit 15).
StatusWords == {0, 2, 32768}

ZeroDevQueue == [sq_head |-> 0, cq_tail |-> 0, phase |-> 1]
ZeroHist == [posted |-> <<>>, consumed |-> 0, timeouts |-> 0]

InitNvme ==
    /\ nvme_ctrl = [admin_queue |-> ZeroQp, io_queue |-> ZeroQp,
                    num_namespaces |-> 0, command_id |-> 0, devices |-> {}]
    /\ nvme_dev = [pci |-> "unscanned", admin |-> ZeroDevQueue,
                   io |-> ZeroDevQueue]
    /\ nvme_regs = [en |-> FALSE, rdy |-> FALSE, cfs |-> FALSE,
                    db |-> [d \in Doorbells |-> 0]]
    /\ nvme_pc = [at |-> "idle", timeout |-> 0, cid |-> 0, is_admin |-> TRUE,
                  after |-> "none", ns |-> 0, res |-> "none", ret |-> "none",
                  ops |-> 0]
    /\ nvme_hist = [admin |-> ZeroHist, io |-> ZeroHist]

\* ---------------------------------------------------------- VFS and ramfs
\* vfs.h; a name of the model never reaches MAX_FILENAME - 1 characters.
MAX_FILENAME == 64
\* The vfs_node_t / ramfs_node_t pairs a run allocates, and its VFS calls.
MaxFsNodes == 4
MaxFsOps == 5

\* A path is the sequence of its characters.
Slash == "/"
RootPath == <<Slash>>

\* The ramfs instance: the node pairs by number (a vfs_node_t and the
\* ramfs_node_t its fs_data points to), the live kmalloc blocks, the number
\* of the next pair, and fs->root.
Fs == [nodes |-> fs_nodes, allocs |-> fs_allocs, next |-> fs_next,
       root |-> fs_root]

\* The kmalloc blocks of node n: its vfs_node_t, its ramfs_node_t, its data.
VfsNodeOf(n) == <<"vfs_node_t", n>>
RamfsNodeOf(n) == <<"ramfs_node_t", n>>
DataOf(n) == <<"data", n>>

\* strncpy(new_node->name, name, MAX_FILENAME - 1) and the terminator.
StoredName(name) ==
    SubSeq(name, 1, IF Len(name) < MAX_FILENAME - 1 THEN Len(name)
                    ELSE MAX_FILENAME - 1)

SeqRange(s) == {s[i] : i \in 1 .. Len(s)}

\* The records from c on along next_sibling.
RECURSIVE Siblings(_, _, _)
Siblings(nodes, c, fuel) ==
    IF c = NULL \/ fuel = 0 THEN <<>>
    ELSE <<c>> \o Siblings(nodes, nodes[c].next_sibling, fuel - 1)

\* What successive ramfs_readdir calls on node give: nothing for a file.
ReadDir(nodes, node) ==
    IF nodes[node].type # "DIRECTORY" THEN <<>>
    ELSE Siblings(nodes, nodes[node].first_child, MaxFsNodes)

\* The first node of a sequence whose name is name, or NULL.
RECURSIVE FirstNamed(_, _, _)
FirstNamed(nodes, ids, name) ==
    IF ids = <<>> THEN NULL
    ELSE IF nodes[Head(ids)].name = name THEN Head(ids)
    ELSE FirstNamed(nodes, Tail(ids), name)

\* The characters of s before its first '/', and what follows them.
RECURSIVE UpToSlash(_)
UpToSlash(s) ==
    IF s = <<>> \/ Head(s) = Slash THEN <<>>
    ELSE <<Head(s)>> \o UpToSlash(Tail(s))
FromSlash(s) == SubSeq(s, Len(UpToSlash(s)) + 1, Len(s))

\* The while (*component) loop of vfs_resolve_path.
RECURSIVE ResolveFrom(_, _, _)
ResolveFrom(nodes, current, component) ==
    IF component = <<>> THEN current
    ELSE LET child == FirstNamed(nodes, ReadDir(nodes, current),
                                 UpToSlash(component))
             rest == FromSlash(component)
         IN  IF child = NULL THEN NULL
             ELSE IF rest # <<>> THEN ResolveFrom(nodes, child, Tail(rest))
             ELSE child

vfs_resolve_path(root, nodes, path) ==
    IF root = NULL THEN NULL
    ELSE IF path = RootPath THEN root
    ELSE ResolveFrom(nodes, root,
                     IF path # <<>> /\ Head(path) = Slash THEN Tail(path)
                     ELSE path)

\* vfs_basename: what follows the last '/'.
RECURSIVE vfs_basename(_)
vfs_basename(path) ==
    IF path = <<>> THEN <<>>
    ELSE IF \E i \in 1 .. Len(path) : path[i] = Slash
    THEN vfs_basename(Tail(path))
    ELSE path

\* vfs_dirname: the loop variable i is read without having been given a
\* value; start is the value it happens to hold.  Indices are the C ones.
LastSlashFrom(path, start) ==
    LET at == {i \in start .. Len(path) - 1 : path[i + 1] = Slash}
    IN  IF at = {} THEN 0 ELSE CHOOSE i \in at : \A j \in at : j <= i
vfs_dirname(path, start) ==
    IF LastSlashFrom(path, start) = 0 THEN RootPath
    ELSE SubSeq(path, 1, LastSlashFrom(path, start))

\* ramfs_mount with both allocations successful.
ramfs_mount(fs) ==
    [fs EXCEPT
        !.nodes = fs.next :> [name |-> RootPath, type |-> "DIRECTORY",
                              size |-> 0, parent |-> NULL, data |-> <<>>,
                              first_child |-> NULL, next_sibling |-> NULL]
                  @@ @,
        !.allocs = @ \cup {VfsNodeOf(fs.next), RamfsNodeOf(fs.next)},
        !.next = @ + 1,
        !.root = fs.next]

\* ramfs_node_create with both allocations successful: the new state and
\* the error returned.
ramfs_node_create(fs, parent, name, type) ==
    IF parent = NULL \/ fs.nodes[parent].type # "DIRECTORY"
    THEN [fs |-> fs, err |-> "E_NOTDIR"]
    ELSE IF FirstNamed(fs.nodes,
                       Siblings(fs.nodes, fs.nodes[parent].first_child,
                                MaxFsNodes), name) # NULL
    THEN [fs |-> fs, err |-> "E_EXISTS"]
    ELSE [fs |->
            [fs EXCEPT
                !.nodes = [(fs.next :>
                            [name |-> StoredName(name), type |-> type,
                             size |-> 0, parent |-> parent, data |-> <<>>,
                             first_child |-> NULL,
                             next_sibling |-> fs.nodes[parent].first_child])
                           @@ @ EXCEPT ![parent].first_child = fs.next],
                !.allocs = @ \cup {VfsNodeOf(fs.next), RamfsNodeOf(fs.next)},
                !.next = @ + 1],
          err |-> "E_OK"]

\* The unlinking of ramfs_node_delete: the parent's chain without node.
UnlinkFirst(nodes, parent, node) ==
    [nodes EXCEPT ![parent].first_child = nodes[@].next_sibling]
Unlink(nodes, parent, node) ==
    IF nodes[parent].first_child = node
    THEN [nodes EXCEPT ![parent].first_child = nodes[node].next_sibling]
    ELSE LET before == {p \in SeqRange(Siblings(nodes, nodes[parent].first_child,
                                             MaxFsNodes)) :
                            nodes[p].next_sibling = node}
         IN  [p \in DOMAIN nodes |->
                IF p \in before
                THEN [nodes[p] EXCEPT
                        !.next_sibling = nodes[node].next_sibling]
                ELSE nodes[p]]

\* ramfs_node_delete.
ramfs_node_delete(fs, node) ==
    IF node = NULL \/ fs.nodes[node].parent = NULL
    THEN [fs |-> fs, err |-> "E_PERM"]
    ELSE [fs |->
            [fs EXCEPT
                !.nodes = Unlink(fs.nodes, fs.nodes[node].parent, node),
                !.allocs = @ \ {DataOf(node), RamfsNodeOf(node),
                                VfsNodeOf(node)}],
          err |-> "E_OK"]

\* What ramfs_write returns once kmalloc(size) has given a block, and once
\* it has given none.
WriteResult(size) == IF size = 0 THEN "E_NOMEM" ELSE "E_OK"

\* ramfs_write with a heap that is not exhausted: kmalloc(0) is NULL
\* (kmalloc.c:51), any other kmalloc succeeds.
ramfs_write(fs, node, bytes) ==
    IF node = NULL \/ fs.nodes[node].type # "REGULAR"
    THEN [fs |-> fs, err |-> "E_ISDIR"]
    ELSE [fs |->
            [fs EXCEPT !.nodes[node].data = bytes,
                       !.nodes[node].size = Len(bytes),
                       !.allocs = IF bytes = <<>> THEN @ \ {DataOf(node)}
                                  ELSE @ \cup {DataOf(node)}],
          err |-> WriteResult(Len(bytes))]

\* size < node->size ? size : node->size
ToRead(size, file_size) == IF size < file_size THEN size ELSE file_size

\* ramfs_read: the error and the bytes copied to the caller's buffer.
ramfs_read(fs, node, size) ==
    IF node = NULL \/ fs.nodes[node].type # "REGULAR"
    THEN [err |-> "E_ISDIR", out |-> <<>>]
    ELSE IF fs.nodes[node].data = <<>>
    THEN [err |-> "E_OK", out |-> <<>>]
    ELSE [err |-> "E_OK",
          out |-> SubSeq(fs.nodes[node].data, 1,
                         ToRead(size, fs.nodes[node].size))]

\* The first size bytes of the ramfs_node_t of a node, which are bytes of
\* the pointers it holds; the node number stands for the addresses.
StructBytes(node, size) == [i \in 1 .. size |-> 128 + 8 * node + (i - 1)]

\* void* buffer = (void*)src->fs_data in vfs_copy_file.
CopyBuffer(fs, src) == StructBytes(src, fs.nodes[src].size)

\* ramfs_free_node_recursive: the blocks it frees.
RECURSIVE FreedBy(_, _, _)
FreedBy(nodes, node, fuel) ==
    IF node = NULL \/ fuel = 0 THEN {}
    ELSE {DataOf(node), VfsNodeOf(node), RamfsNodeOf(node)}
         \cup UNION {FreedBy(nodes, c, fuel - 1) :
                        c \in SeqRange(ReadDir(nodes, node))}

\* ramfs_unmount.
ramfs_unmount(fs) ==
    IF fs.root = NULL THEN [fs |-> fs, err |-> "E_INVALID"]
    ELSE [fs |-> [fs EXCEPT !.allocs = @ \ FreedBy(fs.nodes, fs.root,
                                                  MaxFsNodes + 1),
                            !.root = NULL],
          err |-> "E_OK"]

\* The state after vfs_init and ramfs_create_fs (kernel.c); the
\* filesystem_t is the one block allocated.
InitVfs ==
    /\ vfs_root = NULL
    /\ mount_in_use = FALSE
    /\ fs_root = NULL
    /\ fs_nodes = <<>>
    /\ fs_allocs = {<<"filesystem_t", 0>>}
    /\ fs_next = 1
    /\ fs_base = {}
    /\ fs_last = [op |-> "none", path |-> <<>>, err |-> "none",
                  arg |-> <<>>, out |-> <<>>]
    /\ fs_ops = 0

InitDrivers ==
    /\ driver_registry = <<>>
    /\ drv_status = [n \in DriverNames |-> "UNINITIALIZED"]
    /\ init_all = [at |-> "idle", ret |-> "none"]
    /\ init_call = [name |-> ""]
    /\ drv_of = [n \in DriverNames |-> [name |-> ""]]

Init ==
    /\ InitSched /\ InitTty /\ InitBuddy /\ InitSlab /\ InitPmm /\ InitVmm
    /\ InitDrivers /\ InitKmalloc /\ InitNvme /\ InitVfs
    /\ slices = <<>>
    /\ destroyed = {}

Next ==
    \/ KernelSpawn \/ EnableInterrupts \/ PitHandler \/ KeyboardHandler
    \/ \E t \in UserTask : TaskStep(t)

Spec == Init /\ [][Next]_vars

\* ----------------------------------------------- compute-bound tasks only
\* The tasks never call a primitive: the PIT handler is all that runs the
\* scheduler.
RRTick == PitTick(MaxTicksRR, TRUE)

\* ------------------------------------------------- one reader at the tty
\* One task does nothing but call tty_read with shell.c's line buffer; letters
\* and Enter are typed while it is blocked, enough of them to fill the ring.
MaxTtyKeys == 258      \* TTY_BUFFER_SIZE letters, Enter, and one key more
MaxTtyTicks == 21      \* two time slices and a tick

SpawnReader == created = {idle_task} /\ KernelSpawn

TtyKeyboard ==
    /\ \E t \in UserTask : state[t] = "BLOCKED"
    /\ KeyboardInput(MaxTtyKeys, {97, NL})

TtyPit == PitTick(MaxTtyTicks, FALSE)

ReaderStep(t) ==
    \/ ReadCall(t) /\ local'[t].size = TTY_BUFFER_SIZE
    \/ ReadScan(t) \/ ReadWait(t) \/ BlockState(t) \/ YieldSlice(t)
    \/ TickCheck(t) \/ TickPickStep(t) \/ TickSwitchStep(t)
    \/ ReadCopy(t) \/ ReadDone(t)

NextTty ==
    \/ SpawnReader \/ EnableInterrupts \/ TtyPit \/ TtyKeyboard
    \/ \E t \in UserTask : ReaderStep(t)

SpecTty == Init /\ [][NextTty]_vars

NextRR == KernelSpawn \/ EnableInterrupts \/ RRTick

SpecRR == Init /\ [][NextRR]_vars

\* ---------------------------------------------------------- the allocator
BuddyOnly ==
    /\ UNCHANGED <<created, state, next, time_slice, wake_time, current_task,
                   idle_task, ready_queue_head, ready_queue_tail,
                   sleep_queue_head, pit_ticks, irq_enabled, pc, local>>
    /\ UNCHANGED <<tvars, gvars, slices, destroyed, ovars>>

\* kernel.c:85: buddy_init(buddy, 0x04000000, 0x04000000).  The bitmap
\* bytes past the ones memset clears were never written: any of the first
\* JunkBits bits there may read as set.
BuddyInit ==
    /\ ~g_buddy_allocator
    /\ LET first == 8 * (((RegionSize \div PAGE_SIZE) + 7) \div 8)
       IN  \E junk \in SUBSET (first .. first + JunkBits - 1) :
               /\ SetBuddy(buddy_init(Buddy, RegionBase, RegionSize, junk))
               /\ total_pages' = RegionSize \div PAGE_SIZE
    /\ g_buddy_allocator' = TRUE
    /\ UNCHANGED <<held, ops, calls>>
    /\ BuddyOnly

Called ==
    /\ g_buddy_allocator /\ ~hung
    /\ ops < MaxOps
    /\ ops' = ops + 1
    /\ UNCHANGED <<g_buddy_allocator, total_pages>>
    /\ BuddyOnly

\* The call is appended to calls when the run keeps a log.
Logged(log, call) == calls' = IF log THEN Append(calls, call) ELSE calls

BuddyAllocOrderOp(log) ==
    /\ Called
    /\ \E order \in 0 .. MaxAllocOrder :
        LET r == buddy_alloc_order(Buddy, order)
        IN  /\ SetBuddy(r.b)
            /\ held' = IF r.addr # 0 THEN held \cup {r.addr} ELSE held
            /\ Logged(log, [op |-> "buddy_alloc_order",
                            arg |-> order, ret |-> r.addr])

BuddyAllocOrder == BuddyAllocOrderOp(FALSE)

\* Requests of a byte, of a page and a byte, and of more than the largest block.
AllocSizes == {1, PAGE_SIZE + 1, BUDDY_SIZE_FOR_ORDER(BUDDY_MAX_ORDER) + 1}

BuddyAllocOp(log) ==
    /\ Called
    /\ \E size \in AllocSizes :
        LET r == buddy_alloc(Buddy, size)
        IN  /\ SetBuddy(r.b)
            /\ held' = IF r.addr # 0 THEN held \cup {r.addr} ELSE held
            /\ Logged(log, [op |-> "buddy_alloc", arg |-> size, ret |-> r.addr])

BuddyAlloc == BuddyAllocOp(FALSE)

\* The caller frees an address it was given and has not freed yet.
BuddyFreeOp(log) ==
    /\ Called
    /\ \E phys_addr \in held :
        /\ SetBuddy(buddy_free(Buddy, phys_addr))
        /\ held' = held \ {phys_addr}
        /\ Logged(log, [op |-> "buddy_free", arg |-> phys_addr, ret |-> 0])

BuddyFree == BuddyFreeOp(FALSE)

NextBuddy == BuddyInit \/ BuddyAllocOrder \/ BuddyAlloc \/ BuddyFree

SpecBuddy == Init /\ [][NextBuddy]_vars

\* The same calls, with the log of them kept.
NextBuddyLog ==
    \/ BuddyInit \/ BuddyAllocOrderOp(TRUE) \/ BuddyAllocOp(TRUE)
    \/ BuddyFreeOp(TRUE)

SpecBuddyLog == Init /\ [][NextBuddyLog]_vars

\* ------------------------------------------------------- the slab allocator
\* One cache is created for an object size, and slab_alloc, slab_free and
\* slab_cache_shrink are called on it.  slab_free is given objects the cache
\* handed out that were not freed since.
SlabOnly ==
    /\ UNCHANGED iovars
    /\ UNCHANGED <<created, state, next, time_slice, wake_time, current_task,
                   idle_task, ready_queue_head, ready_queue_tail,
                   sleep_queue_head, pit_ticks, irq_enabled, pc, local>>
    /\ UNCHANGED <<tvars, gvars, slices, destroyed, pvars, vvars, dvars, kvars>>
    /\ UNCHANGED <<g_buddy_allocator, total_pages, held, ops, calls>>

\* Object sizes that give 3, 2 and 1 objects per slab.
ObjectSizes == {5000, 8000, 8192}

SlabCacheCreate ==
    /\ g_buddy_allocator /\ ~hung /\ ~wild
    /\ caches = <<>>
    /\ \E object_size \in ObjectSizes :
        \E r \in {slab_cache_create(Mem, object_size)} :
            r.cache # NULL /\ SetMem(r.m)
    /\ UNCHANGED <<live, slab_calls, slab_ops>>
    /\ SlabOnly

SlabCalled ==
    /\ g_buddy_allocator /\ ~hung /\ ~wild
    /\ slab_ops < MaxSlabOps
    /\ slab_ops' = slab_ops + 1
    /\ SlabOnly

\* slab_calls keeps the last two calls.
LastTwo(c) == IF Len(c) > 2 THEN Tail(c) ELSE c

SlabAlloc ==
    /\ SlabCalled
    /\ \E cache \in DOMAIN caches :
        \E r \in {slab_alloc(Mem, cache)} :
            /\ SetMem(r.m)
            /\ live' = IF r.obj # NULL THEN live \cup {r.obj} ELSE live
            /\ slab_calls' = LastTwo(Append(slab_calls,
                 [op |-> "slab_alloc", arg |-> NULL, ret |-> r.obj]))

SlabFree ==
    /\ SlabCalled
    /\ \E cache \in DOMAIN caches : \E obj \in live :
        \E m \in {slab_free(Mem, cache, obj)} :
            /\ SetMem(m)
            /\ live' = live \ {obj}
            /\ slab_calls' = LastTwo(Append(slab_calls,
                 [op |-> "slab_free", arg |-> obj, ret |-> NULL]))

SlabShrink ==
    /\ SlabCalled
    /\ \E cache \in DOMAIN caches :
        \E r \in {slab_cache_shrink(Mem, cache)} :
            /\ SetMem(r.m)
            /\ slab_calls' = LastTwo(Append(slab_calls,
                 [op |-> "slab_cache_shrink", arg |-> NULL, ret |-> r.freed]))
    /\ UNCHANGED live

NextSlab == BuddyInit \/ SlabCacheCreate \/ SlabAlloc \/ SlabFree \/ SlabShrink

SpecSlab == Init /\ [][NextSlab]_vars

\* ------------------------------------------------- the page-frame allocator
PmmOnly ==
    /\ UNCHANGED iovars
    /\ UNCHANGED <<svars, tvars, gvars, slices, destroyed, bvars, slvars, vvars,
                   dvars, kvars>>

PmmInit ==
    /\ ~pmm_ready
    /\ pmm_ready' = TRUE
    /\ SetPmm(pmm_init(Pmm))
    /\ pmm_last' = [op |-> "pmm_init"]
    /\ UNCHANGED <<pmm_held, pmm_ops>>
    /\ PmmOnly

PmmCalled ==
    /\ pmm_ready
    /\ pmm_ops < MaxPmmOps
    /\ pmm_ops' = pmm_ops + 1
    /\ UNCHANGED pmm_ready
    /\ PmmOnly

\* The frames of a run of count pages at addr.
Frames(addr, npages) == {addr + i * PAGE_SIZE : i \in 0 .. npages - 1}

PmmAllocPage ==
    /\ PmmCalled
    /\ \E r \in {pmm_alloc_page(Pmm)} :
        /\ SetPmm(r.q)
        /\ pmm_last' = [op |-> "pmm_alloc_page",
                        ret |-> IF r.addr = 0 THEN {} ELSE {r.addr}]
        /\ pmm_held' = IF r.addr = 0 THEN pmm_held ELSE pmm_held \cup {r.addr}

PmmAllocPages ==
    /\ PmmCalled
    /\ \E npages \in 0 .. MaxRun : \E r \in {pmm_alloc_pages(Pmm, npages)} :
        /\ SetPmm(r.q)
        /\ pmm_last' = [op |-> "pmm_alloc_pages",
                        ret |-> IF r.addr = 0 THEN {}
                                ELSE Frames(r.addr, npages)]
        /\ pmm_held' = IF r.addr = 0 THEN pmm_held
                       ELSE pmm_held \cup Frames(r.addr, npages)

\* Addresses given to pmm_free_page: frames handed out, and the start of the
\* low memory and of the initial heap.
FreeAddrs == pmm_held \cup {PHYS_LOW_MEM_START, PHYS_HEAP_START}

PmmFreePage ==
    /\ PmmCalled
    /\ \E phys_addr \in FreeAddrs :
        /\ SetPmm(pmm_free_page(Pmm, phys_addr))
        /\ pmm_last' = [op |-> "pmm_free_page", arg |-> phys_addr,
                        held |-> phys_addr \in pmm_held,
                        used_before |-> used_pages]
        /\ pmm_held' = pmm_held \ {phys_addr}

PmmFreePages ==
    /\ PmmCalled
    /\ \E phys_addr \in pmm_held : \E npages \in 1 .. MaxRun :
        /\ SetPmm(pmm_free_pages(Pmm, phys_addr, npages))
        /\ pmm_last' = [op |-> "pmm_free_pages", arg |-> phys_addr]
        /\ pmm_held' = pmm_held \ Frames(phys_addr, npages)

\* Regions given to pmm_mark_region_used and pmm_mark_region_free: the first
\* two pages, a region that is not page-aligned, one that starts below
\* PHYS_FREE_START and one that ends past PHYS_MEMORY_END.
MarkRegions ==
    { <<PHYS_FREE_START, PHYS_FREE_START + 2 * PAGE_SIZE>>,
      <<PHYS_FREE_START + PAGE_SIZE + 1, PHYS_FREE_START + 3 * PAGE_SIZE - 1>>,
      <<PHYS_BITMAP_START, PHYS_FREE_START + PAGE_SIZE>>,
      <<PHYS_MEMORY_END - PAGE_SIZE, PHYS_MEMORY_END + PAGE_SIZE>> }

PmmMarkUsed ==
    /\ PmmCalled
    /\ \E r \in MarkRegions :
        /\ SetPmm(pmm_mark_region_used(Pmm, r[1], r[2]))
        /\ pmm_last' = [op |-> "pmm_mark_region_used", arg |-> r]
    /\ UNCHANGED pmm_held

\* The caller of pmm_mark_region_free gives back the frames of the region.
PmmMarkFree ==
    /\ PmmCalled
    /\ \E r \in MarkRegions :
        /\ SetPmm(pmm_mark_region_free(Pmm, r[1], r[2]))
        /\ pmm_last' = [op |-> "pmm_mark_region_free", arg |-> r]
        /\ pmm_held' = {a \in pmm_held :
                            a < PAGE_ALIGN_DOWN(r[1]) \/ a >= PAGE_ALIGN_UP(r[2])}

NextPmm ==
    \/ PmmInit \/ PmmAllocPage \/ PmmAllocPages \/ PmmFreePage
    \/ PmmFreePages \/ PmmMarkUsed \/ PmmMarkFree

SpecPmm == Init /\ [][NextPmm]_vars

\* ------------------------------------------------------ the page tables
VmmOnly ==
    /\ UNCHANGED iovars
    /\ UNCHANGED <<svars, tvars, gvars, slices, destroyed, bvars, slvars,
                   dvars, kvars, pmm_ready, pmm_held, pmm_last, pmm_ops>>

\* The frames of the tables the boot code leaves in CR3, and of the 2 MiB
\* page it may have mapped; the boot code is not part of src/.
BootPml4 == PHYS_KERNEL_START + 1 * PAGE_SIZE
BootPdpt == PHYS_KERNEL_START + 2 * PAGE_SIZE
BootPd == PHYS_KERNEL_START + 3 * PAGE_SIZE
BootPt == PHYS_KERNEL_START + 4 * PAGE_SIZE
HugeBase == PHYS_HEAP_START

Link(frame) == frame + PAGE_PRESENT + PAGE_WRITE

\* The hierarchies vmm_init may find, as <<pml4[0], pdpt[0], pd[0], pt[0],
\* word 0 of the 2 MiB page>>: the boot tables linked down to some level,
\* pd[0] possibly a 2 MiB page, whose memory holds data (zero, or a word with
\* bit 0 set).
BootShapes ==
    { <<0, 0, 0, 0, 0>>,
      <<Link(BootPdpt), 0, 0, 0, 0>>,
      <<Link(BootPdpt), Link(BootPd), 0, 0, 0>>,
      <<Link(BootPdpt), Link(BootPd), Link(BootPt), 0, 0>>,
      <<Link(BootPdpt), Link(BootPd), Link(BootPt), Link(HugeBase + PAGE_SIZE), 0>>,
      <<Link(BootPdpt), Link(BootPd), Link(HugeBase) + PAGE_HUGE, 0, 0>>,
      <<Link(BootPdpt), Link(BootPd), Link(HugeBase) + PAGE_HUGE, 0, Link(HugeBase)>> }

BootFrames == <<BootPml4, BootPdpt, BootPd, BootPt, HugeBase>>

BootTables ==
    { [f \in {BootFrames[k] : k \in 1 .. 5} |->
         [i \in Idx |-> IF i # 0 THEN 0
                        ELSE shape[CHOOSE k \in 1 .. 5 : BootFrames[k] = f]]] :
        shape \in BootShapes }

VmmInit ==
    /\ pmm_ready
    /\ current_pml4_phys = 0
    /\ current_pml4_phys' = BootPml4
    /\ vmem' \in BootTables
    /\ UNCHANGED <<vmm_calls, vmm_got, vmm_ops, page_bitmap, pmm_total_pages,
                   used_pages>>
    /\ VmmOnly

VmmCalled ==
    /\ current_pml4_phys # 0
    /\ vmm_ops < MaxVmmOps
    /\ vmm_ops' = vmm_ops + 1
    /\ VmmOnly

\* Virtual addresses: their indices into the four tables and the offset.
VirtAddrs ==
    { [pml4_i |-> 0, pdpt_i |-> 0, pd_i |-> 0, pt_i |-> 0, off |-> 0],
      [pml4_i |-> 0, pdpt_i |-> 0, pd_i |-> 0, pt_i |-> 1, off |-> 0],
      [pml4_i |-> 1, pdpt_i |-> 0, pd_i |-> 0, pt_i |-> 0, off |-> 0],
      [pml4_i |-> 0, pdpt_i |-> 0, pd_i |-> 0, pt_i |-> 0, off |-> 8] }

PhysAddrs == {PHYS_FREE_START + 16 * PAGE_SIZE, PHYS_FREE_START + 8}

FlagSets == {0, PAGE_PRESENT + PAGE_WRITE}

VmmMapPage ==
    /\ VmmCalled
    /\ \E v \in VirtAddrs : \E p \in PhysAddrs : \E F \in FlagSets :
       \E r \in {vmm_map_page(Vm, v, p, F)} :
        /\ SetVm(r.vm)
        /\ vmm_calls' = LastTwo(Append(vmm_calls,
               [op |-> "vmm_map_page", v |-> v, p |-> p, F |-> F,
                ret |-> r.err]))
    /\ UNCHANGED vmm_got

VmmUnmapPage ==
    /\ VmmCalled
    /\ \E v \in VirtAddrs : \E r \in {vmm_unmap_page(Vm, v)} :
        /\ SetVm(r.vm)
        /\ vmm_calls' = LastTwo(Append(vmm_calls,
               [op |-> "vmm_unmap_page", v |-> v, ret |-> r.err]))
    /\ UNCHANGED vmm_got

VmmGetPhysical ==
    /\ VmmCalled
    /\ \E v \in VirtAddrs :
        vmm_got' = [op |-> "vmm_get_physical", v |-> v,
                    ret |-> vmm_get_physical(Vm, v)]
    /\ UNCHANGED <<vmem, current_pml4_phys, vmm_calls, page_bitmap,
                   pmm_total_pages, used_pages>>

NextVmm == PmmInit \/ VmmInit \/ VmmMapPage \/ VmmUnmapPage \/ VmmGetPhysical

SpecVmm == Init /\ [][NextVmm]_vars

\* ---------------------------------------------------- the driver registry
DriversOnly ==
    /\ UNCHANGED iovars
    /\ UNCHANGED <<svars, tvars, gvars, slices, destroyed, bvars, slvars,
                   pvars, vvars, kvars>>

\* The driver_t structures handed to driver_register.
DriverStructs ==
    { [name |-> "a", priority |-> 1, depends_on |-> "", init |-> "E_OK"],
      [name |-> "a", priority |-> 1, depends_on |-> "", init |-> "E_HARDWARE"],
      [name |-> "a", priority |-> 0, depends_on |-> "", init |-> "none"],
      [name |-> "b", priority |-> 0, depends_on |-> "a", init |-> "E_OK"],
      [name |-> "b", priority |-> 0, depends_on |-> "c", init |-> "E_OK"],
      [name |-> "c", priority |-> 0, depends_on |-> "b", init |-> "E_OK"],
      [name |-> "c", priority |-> 1, depends_on |-> "zz", init |-> "E_OK"],
      [name |-> "c", priority |-> 0, depends_on |-> "c", init |-> "E_OK"],
      [name |-> "c", priority |-> 1, depends_on |-> "", init |-> "E_OK"] }

\* driver_register; a refused call (E_NOMEM, E_EXISTS) changes nothing.
DriverRegister ==
    /\ init_all.at = "idle"
    /\ \E driver \in DriverStructs :
        IF Len(driver_registry) >= MAX_DRIVERS
           \/ driver_get_by_name(driver_registry, driver.name) # {}
        THEN UNCHANGED <<driver_registry, drv_status, drv_of>>
        ELSE /\ drv_status' = [drv_status EXCEPT ![driver.name] = "UNINITIALIZED"]
             /\ driver_registry' = Append(driver_registry, driver)
             /\ drv_of' = [drv_of EXCEPT ![driver.name] = driver]
    /\ UNCHANGED <<init_all, init_call>>
    /\ DriversOnly

\* driver_unregister of a registered name (cleanup changes no status).
DriverUnregister ==
    /\ init_all.at = "idle"
    /\ \E i \in 1 .. Len(driver_registry) :
        driver_registry' = SubSeq(driver_registry, 1, i - 1)
                           \o SubSeq(driver_registry, i + 1, Len(driver_registry))
    /\ UNCHANGED <<drv_status, init_all, init_call, drv_of>>
    /\ DriversOnly

\* driver_init_all up to its while loop: the sorted queue and the counters.
DriverInitAllBegin ==
    /\ init_all.at = "idle"
    /\ init_all' = [at |-> "while",
                    sorted_queue |-> SortedQueue(driver_registry, Len(driver_registry)),
                    initialized_count |-> 0,
                    max_passes |-> MaxPasses(Len(driver_registry)),
                    pass |-> 0, progress_made |-> FALSE, i |-> 1,
                    before |-> drv_status, start |-> drv_status]
    /\ init_call' = [name |-> ""]
    /\ UNCHANGED <<driver_registry, drv_status, drv_of>>
    /\ DriversOnly

\* The test of the while loop and the start of a pass; the end of
\* driver_init_all when the test fails.  start keeps the statuses the pass
\* began with.
DriverInitAllPass ==
    /\ init_all.at = "while"
    /\ IF init_all.initialized_count < Len(driver_registry)
          /\ init_all.pass < init_all.max_passes
       THEN init_all' = [init_all EXCEPT !.at = "for", !.pass = @ + 1,
                                         !.progress_made = FALSE, !.i = 1,
                                         !.start = drv_status]
       ELSE init_all' = [at |-> "idle", ret |-> "E_OK"]
    /\ UNCHANGED <<driver_registry, drv_status, init_call, drv_of>>
    /\ DriversOnly

\* One turn of the for loop: the driver at sorted_queue[i] is skipped or
\* initialised; past the queue, the pass ends.
DriverInitAllVisit ==
    /\ init_all.at = "for"
    /\ IF init_all.i > Len(init_all.sorted_queue)
       THEN /\ init_all' = IF init_all.progress_made
                           THEN [init_all EXCEPT !.at = "while"]
                           ELSE [at |-> "idle", ret |-> "E_OK"]
            /\ UNCHANGED <<drv_status, init_call>>
       ELSE LET drv == init_all.sorted_queue[init_all.i]
            IN  IF drv_status[drv.name] # "UNINITIALIZED"
                   \/ ~driver_dependencies_met(driver_registry, drv_status, drv)
                THEN /\ init_all' = [init_all EXCEPT !.i = @ + 1]
                     /\ UNCHANGED <<drv_status, init_call>>
                ELSE /\ init_call' = [name |-> drv.name, drv |-> drv,
                                      called |-> drv.init # "none",
                                      status |-> drv_status,
                                      registry |-> driver_registry]
                     /\ drv_status' = [drv_status EXCEPT ![drv.name] =
                            StatusAfter(drv.init)]
                     /\ init_all' = [init_all EXCEPT
                            !.i = @ + 1, !.progress_made = TRUE,
                            !.initialized_count = @ + 1]
    /\ UNCHANGED <<driver_registry, drv_of>>
    /\ DriversOnly

NextDrivers ==
    \/ DriverRegister \/ DriverUnregister \/ DriverInitAllBegin
    \/ DriverInitAllPass \/ DriverInitAllVisit

SpecDrivers == Init /\ [][NextDrivers]_vars

\* driver_init_all runs on, once called, until it returns.
SpecDriversFair ==
    SpecDrivers /\ WF_vars(DriverInitAllPass) /\ WF_vars(DriverInitAllVisit)

\* ------------------------------------------------------ kmalloc and kfree
KmallocOnly ==
    /\ UNCHANGED iovars
    /\ UNCHANGED <<created, state, next, time_slice, wake_time, current_task,
                   idle_task, ready_queue_head, ready_queue_tail,
                   sleep_queue_head, pit_ticks, irq_enabled, pc, local>>
    /\ UNCHANGED <<tvars, gvars, slices, destroyed, pvars, vvars, dvars>>
    /\ UNCHANGED <<g_buddy_allocator, total_pages, held, ops, calls>>
    /\ UNCHANGED <<live, slab_calls, slab_ops>>

\* slab_init (kernel.c, after buddy_init).
SlabInit ==
    /\ g_buddy_allocator /\ ~hung /\ ~wild
    /\ kmalloc_cache = <<>> /\ caches = <<>>
    /\ SetK(slab_init(K))
    /\ UNCHANGED <<klive, kcalls, kops>>
    /\ KmallocOnly

KCalled ==
    /\ kmalloc_cache # <<>> /\ ~hung /\ ~wild
    /\ kops < MaxKOps
    /\ kops' = kops + 1
    /\ KmallocOnly

KmallocSizes == {1, 32, 64, 4096, 8192, 1048576}

\* What the call is measured by: the active objects of the cache of the
\* size, or the used bytes of the buddy allocator.
Counter(k, size) ==
    IF size <= 4096
    THEN LET fit == CHOOSE i \in 1 .. Len(CacheSizes) :
                        /\ size <= CacheSizes[i]
                        /\ \A j \in 1 .. i - 1 : size > CacheSizes[j]
         IN  k.m.caches[k.cache[CacheSizes[fit]]].num_active_objects
    ELSE buddy_get_used_memory(k.m.b)

Kmalloc ==
    /\ KCalled
    /\ \E size \in KmallocSizes : \E r \in {kmalloc(K, size)} :
        /\ SetK(r.k)
        /\ klive' = IF r.ptr = NULL THEN klive ELSE klive \cup {r.ptr}
        /\ kcalls' = LastTwo(Append(kcalls,
               [op |-> "kmalloc", size |-> size, ret |-> r.ptr,
                before |-> Counter(K, size), after |-> Counter(r.k, size)]))

Kfree ==
    /\ KCalled
    /\ kcalls # <<>>
    /\ \E ptr \in klive : \E k \in {kfree(K, ptr)} :
        /\ SetK(k)
        /\ klive' = klive \ {ptr}
        /\ kcalls' = LastTwo(Append(kcalls,
               [op |-> "kfree", ptr |-> ptr,
                after |-> IF kcalls[Len(kcalls)].op = "kmalloc"
                          THEN Counter(k, kcalls[Len(kcalls)].size) ELSE 0]))

NextKmalloc == BuddyInit \/ SlabInit \/ Kmalloc \/ Kfree

SpecKmalloc == Init /\ [][NextKmalloc]_vars

\* krealloc of the block the kmalloc before it returned, to any of the sizes
\* and to 0.
Krealloc ==
    /\ KCalled
    /\ kcalls # <<>>
    /\ kcalls[Len(kcalls)].op = "kmalloc"
    /\ kcalls[Len(kcalls)].ret # NULL
    /\ \E new_size \in KmallocSizes \cup {0} :
        \E r \in {krealloc(K, kcalls[Len(kcalls)].ret, new_size,
                           kcalls[Len(kcalls)].size)} :
            /\ SetK(r.k)
            /\ klive' = IF new_size = 0 \/ r.ptr # NULL
                        THEN (klive \ {kcalls[Len(kcalls)].ret})
                                 \cup ({r.ptr} \ {NULL})
                        ELSE klive
            /\ kcalls' = LastTwo(Append(kcalls,
                   [op |-> "krealloc", ptr |-> kcalls[Len(kcalls)].ret,
                    size |-> new_size, ret |-> r.ptr]))

NextKrealloc == BuddyInit \/ SlabInit \/ Kmalloc \/ Kfree \/ Krealloc

SpecKrealloc == Init /\ [][NextKrealloc]_vars

\* ------------------------------------------------------- the NVMe driver
NvmeOnly ==
    /\ UNCHANGED <<svars, tvars, gvars, slices, destroyed, bvars, slvars,
                   pvars, vvars, dvars, kvars, fvars>>

\* nvme_init returns err.
NvmeInitReturns(err) ==
    nvme_pc' = [nvme_pc EXCEPT !.at = "done", !.ret = err]

\* A command is built and submitted, and nvme_wait_completion is entered.
NvmeSubmit(ctrl, is_admin, after, ns) ==
    /\ nvme_ctrl' = IssueCommand(ctrl, is_admin)
    /\ nvme_regs' =
        [nvme_regs EXCEPT !.db[SqDoorbell(is_admin)] =
            nvme_submit_command(QueueOf(ctrl, is_admin), 0).sq_tail]
    /\ nvme_pc' = [nvme_pc EXCEPT !.at = "wait", !.timeout = PollBudget,
                                  !.cid = ctrl.command_id,
                                  !.is_admin = is_admin, !.after = after,
                                  !.ns = ns]

\* nvme_init up to the write that clears CC.EN: E_NOTFOUND without an NVMe
\* function on the bus, E_HARDWARE when a page of BAR0 cannot be mapped.
NvmeInitBegin ==
    /\ nvme_pc.at = "idle"
    /\ \E found \in BOOLEAN, mapped \in BOOLEAN :
        /\ nvme_dev' = [nvme_dev EXCEPT !.pci = IF found THEN "nvme"
                                                ELSE "none"]
        /\ IF ~found
           THEN /\ NvmeInitReturns("E_NOTFOUND")
                /\ UNCHANGED nvme_regs
           ELSE IF mapped
           THEN /\ nvme_regs' = [nvme_regs EXCEPT !.en = FALSE]
                /\ nvme_pc' = [nvme_pc EXCEPT !.at = "disable_wait",
                                              !.timeout = PollBudget]
           ELSE /\ NvmeInitReturns("E_HARDWARE")
                /\ UNCHANGED nvme_regs
    /\ UNCHANGED <<nvme_ctrl, nvme_hist>>
    /\ NvmeOnly

\* One test of while (timeout--) and one iteration of the first loop.
NvmeDisablePoll ==
    /\ nvme_pc.at = "disable_wait"
    /\ nvme_pc' =
        IF nvme_pc.timeout = 0 THEN [nvme_pc EXCEPT !.at = "disable_check"]
        ELSE [nvme_pc EXCEPT !.timeout = @ - 1,
                             !.at = IF nvme_regs.rdy THEN @
                                    ELSE "disable_check"]
    /\ UNCHANGED <<nvme_ctrl, nvme_regs, nvme_dev, nvme_hist>>
    /\ NvmeOnly

\* The read of CSTS after the first loop, the admin queue pair, CC.EN.
NvmeDisableCheck ==
    /\ nvme_pc.at = "disable_check"
    /\ IF nvme_regs.rdy
       THEN /\ NvmeInitReturns("E_TIMEOUT")
            /\ UNCHANGED <<nvme_ctrl, nvme_regs>>
       ELSE \E allocated \in BOOLEAN :
            IF allocated
            THEN /\ nvme_ctrl' =
                    [nvme_ctrl EXCEPT !.admin_queue =
                        nvme_init_queue_pair(NVME_ADMIN_QUEUE_SIZE,
                                             NVME_ADMIN_QUEUE_SIZE)]
                 /\ nvme_regs' = [nvme_regs EXCEPT !.en = TRUE]
                 /\ nvme_pc' = [nvme_pc EXCEPT !.at = "ready_wait",
                                               !.timeout = PollBudget]
            ELSE /\ NvmeInitReturns("E_HARDWARE")
                 /\ UNCHANGED <<nvme_ctrl, nvme_regs>>
    /\ UNCHANGED <<nvme_dev, nvme_hist>>
    /\ NvmeOnly

\* One test of while (timeout--) and one iteration of the second loop.
NvmeReadyPoll ==
    /\ nvme_pc.at = "ready_wait"
    /\ nvme_pc' =
        IF nvme_pc.timeout = 0 THEN [nvme_pc EXCEPT !.at = "ready_check"]
        ELSE IF nvme_regs.cfs
        THEN [nvme_pc EXCEPT !.timeout = @ - 1, !.at = "done",
                             !.ret = "E_HARDWARE"]
        ELSE [nvme_pc EXCEPT !.timeout = @ - 1,
                             !.at = IF nvme_regs.rdy THEN "ready_check"
                                    ELSE @]
    /\ UNCHANGED <<nvme_ctrl, nvme_regs, nvme_dev, nvme_hist>>
    /\ NvmeOnly

\* The read of CSTS after the second loop, then nvme_identify_controller up
\* to its nvme_wait_completion.
NvmeReadyCheck ==
    /\ nvme_pc.at = "ready_check"
    /\ IF ~nvme_regs.rdy
       THEN /\ NvmeInitReturns(NotReadyResult)
            /\ UNCHANGED <<nvme_ctrl, nvme_regs>>
       ELSE NvmeSubmit([nvme_ctrl EXCEPT !.command_id = 0], TRUE,
                       "identify", 0)
    /\ UNCHANGED <<nvme_dev, nvme_hist>>
    /\ NvmeOnly

\* One test of while (timeout--) and one iteration of nvme_wait_completion.
NvmeWaitPoll ==
    /\ nvme_pc.at = "wait"
    /\ \E qp \in {QueueOf(nvme_ctrl, nvme_pc.is_admin)} :
       \E q \in {QueueName(nvme_pc.is_admin)} :
        IF nvme_pc.timeout = 0
        THEN /\ nvme_pc' = [nvme_pc EXCEPT !.at = "returned",
                                           !.res = "E_TIMEOUT"]
             /\ nvme_hist' = [nvme_hist EXCEPT ![q].timeouts = @ + 1]
             /\ UNCHANGED <<nvme_ctrl, nvme_regs>>
        ELSE IF CqeMatches(qp, nvme_pc.cid)
        THEN /\ nvme_ctrl' =
                    WithQueue(nvme_ctrl, nvme_pc.is_admin, ConsumeCqe(qp))
             /\ nvme_regs' =
                    [nvme_regs EXCEPT !.db[CqDoorbell(nvme_pc.is_admin)] =
                        ConsumeCqe(qp).cq_head]
             /\ nvme_pc' =
                    [nvme_pc EXCEPT !.timeout = @ - 1, !.at = "returned",
                                    !.res = WaitResult(
                                                qp.cq[qp.cq_head].status)]
             /\ nvme_hist' = [nvme_hist EXCEPT ![q].consumed = @ + 1]
        ELSE /\ nvme_pc' = [nvme_pc EXCEPT !.timeout = @ - 1]
             /\ UNCHANGED <<nvme_ctrl, nvme_regs, nvme_hist>>
    /\ UNCHANGED nvme_dev
    /\ NvmeOnly

\* The namespace loop of nvme_init from index i on.
NvmeNamespaces(ctrl, i) ==
    IF i < ctrl.num_namespaces /\ i < NVME_MAX_NAMESPACES
    THEN NvmeSubmit(ctrl, TRUE, "namespace", i)
    ELSE /\ nvme_ctrl' = ctrl
         /\ NvmeInitReturns("E_OK")
         /\ UNCHANGED nvme_regs

\* What the caller of nvme_wait_completion does with its result.
NvmeAfterWait ==
    /\ nvme_pc.at = "returned"
    /\ CASE nvme_pc.after = "identify" ->
                IF nvme_pc.res # "E_OK"
                THEN /\ NvmeInitReturns(AdminFailedResult(nvme_pc.res))
                     /\ UNCHANGED <<nvme_ctrl, nvme_regs>>
                ELSE \E nn \in 0 .. MaxNn, allocated \in BOOLEAN :
                     IF allocated
                     THEN NvmeSubmit(
                            [nvme_ctrl EXCEPT
                                !.num_namespaces = nn,
                                !.io_queue =
                                    nvme_init_queue_pair(NVME_IO_QUEUE_SIZE,
                                                         NVME_IO_QUEUE_SIZE)],
                            TRUE, "create_cq", 0)
                     ELSE /\ nvme_ctrl' =
                                [nvme_ctrl EXCEPT !.num_namespaces = nn]
                          /\ NvmeInitReturns("E_HARDWARE")
                          /\ UNCHANGED nvme_regs
         [] nvme_pc.after = "create_cq" ->
                IF nvme_pc.res # "E_OK"
                THEN /\ NvmeInitReturns(AdminFailedResult(nvme_pc.res))
                     /\ UNCHANGED <<nvme_ctrl, nvme_regs>>
                ELSE NvmeSubmit(nvme_ctrl, TRUE, "create_sq", 0)
         [] nvme_pc.after = "create_sq" ->
                IF nvme_pc.res # "E_OK"
                THEN /\ NvmeInitReturns(AdminFailedResult(nvme_pc.res))
                     /\ UNCHANGED <<nvme_ctrl, nvme_regs>>
                ELSE NvmeNamespaces(nvme_ctrl, 0)
         [] nvme_pc.after = "namespace" ->
                \E nsze \in 0 .. 1 :
                    NvmeNamespaces(
                        IF nvme_pc.res = "E_OK" /\ nsze > 0
                        THEN [nvme_ctrl EXCEPT
                                !.devices = @ \cup {nvme_pc.ns}]
                        ELSE nvme_ctrl,
                        nvme_pc.ns + 1)
         [] nvme_pc.after = "block" ->
                /\ nvme_pc' = [nvme_pc EXCEPT !.at = "done"]
                /\ UNCHANGED <<nvme_ctrl, nvme_regs>>
    /\ UNCHANGED <<nvme_dev, nvme_hist>>
    /\ NvmeOnly

\* nvme_read_block_op or nvme_write_block_op on a registered namespace, up
\* to its nvme_wait_completion.
NvmeBlockOp ==
    /\ nvme_pc.at = "done"
    /\ nvme_pc.ops < MaxBlockOps
    /\ \E dev \in nvme_ctrl.devices :
        /\ nvme_ctrl' = IssueCommand(nvme_ctrl, FALSE)
        /\ nvme_regs' =
            [nvme_regs EXCEPT !.db[SqDoorbell(FALSE)] =
                nvme_submit_command(nvme_ctrl.io_queue, 0).sq_tail]
        /\ nvme_pc' = [nvme_pc EXCEPT !.at = "wait", !.timeout = PollBudget,
                                      !.cid = nvme_ctrl.command_id,
                                      !.is_admin = FALSE, !.after = "block",
                                      !.ns = dev, !.ops = @ + 1]
    /\ UNCHANGED <<nvme_dev, nvme_hist>>
    /\ NvmeOnly

\* The firmware has left the controller enabled before nvme_init runs.
FirmwareEnables ==
    /\ nvme_pc.at = "idle" /\ ~nvme_regs.en
    /\ nvme_regs' = [nvme_regs EXCEPT !.en = TRUE]
    /\ UNCHANGED <<nvme_ctrl, nvme_dev, nvme_pc, nvme_hist>>
    /\ NvmeOnly

\* The controller follows CC.EN with CSTS.RDY.
ControllerReady ==
    /\ nvme_regs.rdy # nvme_regs.en
    /\ ~nvme_regs.cfs
    /\ nvme_regs' = [nvme_regs EXCEPT !.rdy = nvme_regs.en]
    /\ UNCHANGED <<nvme_ctrl, nvme_dev, nvme_pc, nvme_hist>>
    /\ NvmeOnly

\* The controller reports a fatal error while it is being enabled.
ControllerFatal ==
    /\ nvme_regs.en /\ ~nvme_regs.rdy /\ ~nvme_regs.cfs
    /\ nvme_regs' = [nvme_regs EXCEPT !.cfs = TRUE]
    /\ UNCHANGED <<nvme_ctrl, nvme_dev, nvme_pc, nvme_hist>>
    /\ NvmeOnly

\* The controller takes the next command of a submission queue and posts
\* its completion: entries in slot order, the phase bit inverted each time
\* the completion queue wraps, no slot overwritten before the driver has
\* released it through the completion doorbell.
ControllerPosts(is_admin) ==
    /\ nvme_regs.rdy /\ nvme_regs.en /\ ~nvme_regs.cfs
    /\ \E qp \in {QueueOf(nvme_ctrl, is_admin)} :
       \E q \in {QueueName(is_admin)} :
        /\ qp.sq_size > 0
        /\ nvme_dev[q].sq_head # nvme_regs.db[SqDoorbell(is_admin)]
        /\ (nvme_dev[q].cq_tail + 1) % qp.cq_size
                # nvme_regs.db[CqDoorbell(is_admin)]
        /\ \E word \in StatusWords :
            /\ nvme_ctrl' =
                WithQueue(nvme_ctrl, is_admin,
                    [qp EXCEPT !.cq[nvme_dev[q].cq_tail] =
                        [cid |-> qp.sq[nvme_dev[q].sq_head],
                         status |-> word + nvme_dev[q].phase]])
            /\ nvme_hist' =
                [nvme_hist EXCEPT ![q].posted =
                    Append(@, [slot |-> nvme_dev[q].cq_tail,
                               cid |-> qp.sq[nvme_dev[q].sq_head],
                               status |-> word + nvme_dev[q].phase])]
        /\ nvme_dev' =
            [nvme_dev EXCEPT
                ![q].sq_head = (@ + 1) % qp.sq_size,
                ![q].cq_tail = (@ + 1) % qp.cq_size,
                ![q].phase = IF (nvme_dev[q].cq_tail + 1) % qp.cq_size = 0
                             THEN 1 - @ ELSE @]
    /\ UNCHANGED <<nvme_regs, nvme_pc>>
    /\ NvmeOnly

NextNvme ==
    \/ NvmeInitBegin \/ NvmeDisablePoll \/ NvmeDisableCheck \/ NvmeReadyPoll
    \/ NvmeReadyCheck \/ NvmeWaitPoll \/ NvmeAfterWait \/ NvmeBlockOp
    \/ FirmwareEnables \/ ControllerReady \/ ControllerFatal
    \/ \E is_admin \in BOOLEAN : ControllerPosts(is_admin)

SpecNvme == Init /\ [][NextNvme]_vars

\* ---------------------------------------------------------- VFS and ramfs
VfsOnly ==
    /\ UNCHANGED <<svars, tvars, gvars, slices, destroyed, bvars, slvars,
                   pvars, vvars, dvars, kvars, nvars>>

SetFs(fs) ==
    /\ fs_nodes' = fs.nodes
    /\ fs_allocs' = fs.allocs
    /\ fs_next' = fs.next
    /\ fs_root' = fs.root

\* The names and the paths of a run, and the buffers it writes.
FsNames == {<<"a">>, <<"b">>}
FsPaths ==
    {RootPath} \cup {<<Slash>> \o n : n \in FsNames}
    \cup {<<Slash>> \o n \o <<Slash>> \o m : n \in FsNames, m \in FsNames}
FsBuffers == {<<7>>, <<8, 9>>}

VfsCalledWith(op, path, err, arg, out) ==
    /\ fs_last' = [op |-> op, path |-> path, err |-> err, arg |-> arg,
                   out |-> out]
    /\ fs_ops' = fs_ops + 1
VfsCalled(op, path, err) == VfsCalledWith(op, path, err, <<>>, <<>>)

\* vfs_mount(ramfs, "/") with a free slot.
VfsMount ==
    /\ ~mount_in_use
    /\ fs_ops < MaxFsOps /\ fs_next <= MaxFsNodes
    /\ fs_base' = fs_allocs
    /\ SetFs(ramfs_mount(Fs))
    /\ mount_in_use' = TRUE
    /\ vfs_root' = ramfs_mount(Fs).root
    /\ VfsCalled("mount", RootPath, "E_OK")
    /\ VfsOnly

\* vfs_unmount("/").
VfsUnmount ==
    /\ mount_in_use
    /\ fs_ops < MaxFsOps
    /\ SetFs(ramfs_unmount(Fs).fs)
    /\ mount_in_use' = (ramfs_unmount(Fs).err # "E_OK")
    /\ VfsCalled("unmount", RootPath, ramfs_unmount(Fs).err)
    /\ UNCHANGED <<vfs_root, fs_base>>
    /\ VfsOnly

\* vfs_create_file and vfs_create_directory: the parent is what the path
\* vfs_dirname returns resolves to.
VfsCreate(path, type, start) ==
    /\ mount_in_use
    /\ fs_ops < MaxFsOps /\ fs_next <= MaxFsNodes
    /\ \E parent \in {vfs_resolve_path(vfs_root, fs_nodes,
                                       vfs_dirname(path, start))} :
        IF parent = NULL
        THEN /\ VfsCalled(type, path, "E_INVALID")
             /\ UNCHANGED <<fs_nodes, fs_allocs, fs_next, fs_root>>
        ELSE \E r \in {ramfs_node_create(Fs, parent, vfs_basename(path),
                                         type)} :
                /\ SetFs(r.fs)
                /\ VfsCalled(type, path, r.err)
    /\ UNCHANGED <<vfs_root, mount_in_use, fs_base>>
    /\ VfsOnly

VfsCreateFile ==
    \E path \in FsPaths : \E start \in 0 .. Len(path) :
        VfsCreate(path, "REGULAR", start)

VfsCreateDirectory ==
    \E path \in FsPaths : \E start \in 0 .. Len(path) :
        VfsCreate(path, "DIRECTORY", start)

\* vfs_open(path) and vfs_write of a buffer to the node it returned.
VfsWrite ==
    /\ mount_in_use
    /\ fs_ops < MaxFsOps
    /\ \E path \in FsPaths, bytes \in FsBuffers :
       \E node \in {vfs_resolve_path(vfs_root, fs_nodes, path)} :
        IF node = NULL
        THEN /\ VfsCalled("write", path, "E_INVALID")
             /\ UNCHANGED <<fs_nodes, fs_allocs, fs_next, fs_root>>
        ELSE \E r \in {ramfs_write(Fs, node, bytes)} :
                /\ SetFs(r.fs)
                /\ VfsCalledWith("write", path, r.err, bytes, <<>>)
    /\ UNCHANGED <<vfs_root, mount_in_use, fs_base>>
    /\ VfsOnly

\* vfs_delete(path).
VfsDelete ==
    /\ mount_in_use
    /\ fs_ops < MaxFsOps
    /\ \E path \in FsPaths :
       \E node \in {vfs_resolve_path(vfs_root, fs_nodes, path)} :
        IF node = NULL
        THEN /\ VfsCalled("delete", path, "E_INVALID")
             /\ UNCHANGED <<fs_nodes, fs_allocs, fs_next, fs_root>>
        ELSE \E r \in {ramfs_node_delete(Fs, node)} :
                /\ SetFs(r.fs)
                /\ VfsCalled("delete", path, r.err)
    /\ UNCHANGED <<vfs_root, mount_in_use, fs_base>>
    /\ VfsOnly

NextVfs ==
    \/ VfsMount \/ VfsUnmount \/ VfsCreateFile \/ VfsCreateDirectory
    \/ VfsWrite \/ VfsDelete

SpecVfs == Init /\ [][NextVfs]_vars

\* The sizes vfs_read is called with, and the empty buffer.
FsReadSizes == 0 .. 3
FsWriteBuffers == FsBuffers \cup {<<>>}

\* vfs_open(path) and vfs_write of a buffer, the empty one too.
VfsWriteAny ==
    /\ mount_in_use
    /\ fs_ops < MaxFsOps
    /\ \E path \in FsPaths, bytes \in FsWriteBuffers :
       \E node \in {vfs_resolve_path(vfs_root, fs_nodes, path)} :
        IF node = NULL
        THEN /\ VfsCalled("write", path, "E_INVALID")
             /\ UNCHANGED <<fs_nodes, fs_allocs, fs_next, fs_root>>
        ELSE \E r \in {ramfs_write(Fs, node, bytes)} :
                /\ SetFs(r.fs)
                /\ VfsCalledWith("write", path, r.err, bytes, <<>>)
    /\ UNCHANGED <<vfs_root, mount_in_use, fs_base>>
    /\ VfsOnly

\* vfs_open(path) and vfs_read of size bytes from the node it returned.
VfsRead ==
    /\ mount_in_use
    /\ fs_ops < MaxFsOps
    /\ \E path \in FsPaths, size \in FsReadSizes :
       \E node \in {vfs_resolve_path(vfs_root, fs_nodes, path)} :
        IF node = NULL
        THEN VfsCalledWith("read", path, "E_INVALID", <<size>>, <<>>)
        ELSE \E r \in {ramfs_read(Fs, node, size)} :
                VfsCalledWith("read", path, r.err, <<size>>, r.out)
    /\ UNCHANGED <<vfs_root, mount_in_use, fs_base, fs_nodes, fs_allocs,
                   fs_next, fs_root>>
    /\ VfsOnly

\* vfs_copy_file(dest, source); start is the value the loop variable of
\* vfs_dirname holds in the vfs_create_file it calls.
VfsCopyFile ==
    /\ mount_in_use
    /\ fs_ops < MaxFsOps /\ fs_next <= MaxFsNodes
    /\ \E dest \in FsPaths, source \in FsPaths :
       \E start \in 0 .. Len(dest) :
       \E src \in {vfs_resolve_path(vfs_root, fs_nodes, source)} :
       \E parent \in {vfs_resolve_path(vfs_root, fs_nodes,
                                       vfs_dirname(dest, start))} :
        IF src = NULL \/ fs_nodes[src].type # "REGULAR"
        THEN /\ VfsCalledWith("copy", dest, "E_INVALID", source, <<>>)
             /\ UNCHANGED <<fs_nodes, fs_allocs, fs_next, fs_root>>
        ELSE IF parent = NULL
        THEN /\ VfsCalledWith("copy", dest, "E_INVALID", source, <<>>)
             /\ UNCHANGED <<fs_nodes, fs_allocs, fs_next, fs_root>>
        ELSE \E c \in {ramfs_node_create(Fs, parent, vfs_basename(dest),
                                         "REGULAR")} :
             \E dst \in {vfs_resolve_path(vfs_root, c.fs.nodes, dest)} :
                IF c.err \notin {"E_OK", "E_EXISTS"}
                THEN /\ SetFs(c.fs)
                     /\ VfsCalledWith("copy", dest, c.err, source, <<>>)
                ELSE IF dst = NULL
                THEN /\ SetFs(c.fs)
                     /\ VfsCalledWith("copy", dest, "E_NOTFOUND", source,
                                      <<>>)
                ELSE \E w \in {ramfs_write(c.fs, dst,
                                           CopyBuffer(c.fs, src))} :
                     /\ SetFs(w.fs)
                     /\ VfsCalledWith("copy", dest, w.err, source, <<>>)
    /\ UNCHANGED <<vfs_root, mount_in_use, fs_base>>
    /\ VfsOnly

NextVfsIO ==
    \/ VfsMount \/ VfsCreateFile \/ VfsCreateDirectory \/ VfsWriteAny
    \/ VfsRead \/ VfsCopyFile

SpecVfsIO == Init /\ [][NextVfsIO]_vars

\* What vfs_resolve_path can return.  "/" gives vfs_root without a look at
\* the node.  Any other path is looked up in the node vfs_root points at;
\* once that node is freed the lookup reads freed memory and may end on
\* anything.
Resolved(path) ==
    IF vfs_root = NULL \/ path = RootPath \/ VfsNodeOf(vfs_root) \in fs_allocs
    THEN {vfs_resolve_path(vfs_root, fs_nodes, path)}
    ELSE {NULL} \cup DOMAIN fs_nodes

\* vfs_open(path), mounted or not; out holds the node returned.
VfsOpen ==
    /\ fs_ops < MaxFsOps
    /\ \E path \in FsPaths : \E node \in Resolved(path) :
        VfsCalledWith("open", path, "none", <<>>, <<node>>)
    /\ UNCHANGED <<vfs_root, mount_in_use, fs_base, fs_nodes, fs_allocs,
                   fs_next, fs_root>>
    /\ VfsOnly

NextVfsMount ==
    \/ VfsMount \/ VfsUnmount \/ VfsCreateFile \/ VfsCreateDirectory
    \/ VfsOpen

SpecVfsMount == Init /\ [][NextVfsMount]_vars

\* ------------------------------------------------------------ task_destroy
\* task_destroy (task.c:150-171), called by the running task on a task v:
\* scheduler_remove_task(v), then kfree of the stack and of the task_t.
\* kfree (memory.c:126-133) leaves the bytes of the task_t in place, and the
\* heap may hand them to its next caller: v's fields read afterwards as what
\* they held, or as what was written over them (here: a state that is none
\* of the scheduler's, and a null next).
TaskDestroy(t) ==
    /\ Runs(t, "run")
    /\ Cardinality(destroyed) < MaxDestroys
    /\ \E v \in (created \cap UserTask) \ destroyed :
        LET s1 == scheduler_remove_task(Sched, v)
        IN  /\ destroyed' = destroyed \cup {v}
            /\ \/ SetSched(s1)
               \/ SetSched([s1 EXCEPT !.state[v] = "OTHER", !.next[v] = NULL])
    /\ UNCHANGED <<created, idle_task, pit_ticks, irq_enabled, pc, local>>
    /\ UNCHANGED <<tvars, gvars, slices, bvars, ovars>>

NextDestroy == Next \/ \E t \in UserTask : TaskDestroy(t)

SpecDestroy == Init /\ [][NextDestroy]_vars

\* ------------------------------------------------------------ properties
\* The tasks linked from a queue head through task->next.
RECURSIVE Chain(_, _)
Chain(h, seen) ==
    IF h = NULL \/ h \in seen THEN seen ELSE Chain(next[h], seen \cup {h})

ReadyQueue == Chain(ready_queue_head, {})
SleepQueue == Chain(sleep_queue_head, {})

\* Task code outside every scheduler primitive: the task loop, the idle
\* loop, tty_read outside task_block, and the return from task_sleep.
RestPc == {"none", "idle", "run", "r_scan", "r_wait", "r_copy", "r_done",
           "s_ret"}

\* Task code runs and no scheduler primitive is half-way: the task on the CPU
\* is outside the primitives, and so is every other task that can still run
\* (a task that has exited is never dispatched again, wherever it stopped).
Quiescent ==
    /\ ~hung
    /\ pc[current_task] \in RestPc
    /\ \A u \in created : pc[u] \in RestPc \/ state[u] = "TERMINATED"

\* Every task, exited ones included, is outside the primitives: the exited
\* ones stand in the task_yield loop that ends task_exit.
Settled ==
    /\ ~hung
    /\ pc[current_task] \in RestPc
    /\ \A u \in created : pc[u] \in RestPc \cup {"x_y1"}

\* C1: whenever task code runs and no scheduler primitive is half-way,
\* exactly one task is RUNNING and it is current_task.
C1_OneRunning ==
    Quiescent =>
        \A t \in created : (state[t] = "RUNNING") <=> (t = current_task)

\* C2: between scheduler operations a task is on the ready queue exactly
\* when it is READY and never while it is current, a SLEEPING task is on the
\* sleep queue with wake_time in the future, and a BLOCKED task is on neither
\* queue; so no READY task is off the ready queue while not current.
C2_QueuesMatchStates ==
    Settled =>
        \A t \in created :
            /\ (t \in ReadyQueue) <=> (state[t] = "READY")
            /\ t \in ReadyQueue => t # current_task
            /\ state[t] = "SLEEPING" =>
                   t \in SleepQueue /\ wake_time[t] > pit_ticks
            /\ state[t] = "BLOCKED" =>
                   t \notin ReadyQueue /\ t \notin SleepQueue

\* C3: a reader is never left BLOCKED and off the CPU when a newline has
\* been delivered since its last scan of the ring (nothing would wake it).
C3_NoLostWakeup ==
    \A t \in created :
        ~(missed[t] /\ state[t] = "BLOCKED" /\ current_task # t
                    /\ waiting_task # t)

\* C4: what tty_read hands to a caller with room for the line is the
\* delivered bytes, backspaces applied, up to and including the first
\* newline, and nothing else.
C4_ReadReturnsLine ==
    \A t \in created :
        (pc[t] = "r_done" /\ local[t].size = 256) =>
            /\ local[t].out = expect[t]
            /\ local[t].out # <<>>
            /\ local[t].out[Len(local[t].out)] = NL
            /\ \A i \in 1 .. Len(local[t].out) - 1 : local[t].out[i] # NL

\* C5: the task recorded in waiting_task is BLOCKED.
C5_WaiterIsBlocked ==
    waiting_task # NULL => state[waiting_task] = "BLOCKED"

\* task_sleep has linked the task on the sleep queue and not yet returned.
Asleep(t) ==
    \/ pc[t] \in {"s_ts", "s_ret"}
    \/ pc[t] \in {"tick_check", "tick_pick", "tick_switch"}
         /\ local[t].ret = "s_ret"

\* C6: a task inside task_sleep(n) called at tick t has wake_time t + n; it
\* is back on the CPU after its switch only at a tick >= t + n; while it is off
\* the CPU before that tick it is on the sleep queue and not on the ready
\* queue; and once a tick >= t + n has been handled while it is off the CPU
\* it is READY on the ready queue.
C6_SleepWakes ==
    ~hung =>
        \A t \in created \ {idle_task} :
            Asleep(t) =>
                /\ wake_time[t] = local[t].cur + local[t].arg
                /\ (pc[t] = "s_ret" /\ current_task = t) =>
                       pit_ticks >= wake_time[t]
                /\ (current_task # t /\ pit_ticks < wake_time[t]) =>
                       t \in SleepQueue /\ t \notin ReadyQueue
                /\ (current_task # t /\ pit_ticks >= wake_time[t]) =>
                       t \in ReadyQueue /\ state[t] = "READY"

\* C7 counts: how many of the slices i .. j task u ran.
SlicesOf(u, i, j) == Cardinality({k \in i .. j : slices[k] = u})

\* The slices that went to the tasks, the idle task's left out.
TaskSlices == SelectSeq(slices, LAMBDA u : u # idle_task)

\* C7: with exactly two tasks besides the idle task, neither calling a
\* primitive, each task runs N/2 of any N consecutive time slices, give or
\* take one, and the two are dispatched in the order they were queued in
\* (task 1, task 2, task 1, ...).
C7_EqualShares ==
    Cardinality(created \ {idle_task}) = 2 =>
        /\ \A i, j \in 1 .. Len(slices) :
               i <= j =>
                   \A u \in created \ {idle_task} :
                       /\ 2 * SlicesOf(u, i, j) >= (j - i + 1) - 2
                       /\ 2 * SlicesOf(u, i, j) <= (j - i + 1) + 2
        /\ \A k \in 1 .. Len(TaskSlices) :
               TaskSlices[k] = IF k % 2 = 1 THEN 1 ELSE 2

\* A task that has exited (task_exit is past scheduler_remove_task) or was
\* passed to task_destroy.
Gone(t) ==
    \/ t \in destroyed
    \/ state[t] = "TERMINATED" /\ pc[t] = "x_y1"
    \/ state[t] = "TERMINATED"
         /\ pc[t] \in {"tick_check", "tick_pick", "tick_switch"}
         /\ local[t].ret = "x_y1"

\* C8: a task that has exited or was destroyed is linked on neither queue
\* (so scheduler_pick_next cannot return it) and is not the successor of
\* current_task.
C8_GoneForGood ==
    ~hung =>
        \A t \in created :
            Gone(t) =>
                /\ t \notin ReadyQueue
                /\ t \notin SleepQueue
                /\ t # current_task => next[current_task] # t

\* The blocks linked from a free list's head through next.
RECURSIVE BlockChain(_, _)
BlockChain(h, seen) ==
    IF h = NULL \/ h \in seen THEN seen
    ELSE BlockChain(blk_next[h], seen \cup {h})

FreeList(k) == BlockChain(free_lists[k], {})

\* C9: after buddy_init and after every allocator call, no free list holds
\* two blocks whose page indices differ by XOR with 2^k, for k in 0 .. 11.
C9_NoBuddiesOnList ==
    (g_buddy_allocator /\ ~hung) =>
        \A k \in 0 .. BUDDY_MAX_ORDER :
            \A a \in FreeList(k) :
                get_buddy_addr(Buddy, a, k) \notin FreeList(k)

\* C9, amended: the same for the orders below BUDDY_MAX_ORDER, the ones
\* try_merge merges at.
C9_NoBuddiesBelowTop ==
    (g_buddy_allocator /\ ~hung) =>
        \A k \in 0 .. BUDDY_MAX_ORDER - 1 :
            \A a \in FreeList(k) :
                get_buddy_addr(Buddy, a, k) \notin FreeList(k)

\* A buddy_free has found the freed block's buddy on the list and merged.
C9_Merged == g_buddy_allocator /\ ~hung /\ merges > 0

\* C10: after buddy_init and after every allocator call, the page index of
\* every block on free_lists[k] is a multiple of 2^k, for k in 0 .. 11.
C10_BlocksAligned ==
    g_buddy_allocator =>
        \A k \in 0 .. BUDDY_MAX_ORDER :
            \A a \in FreeList(k) :
                /\ a % BUDDY_SIZE_FOR_ORDER(k) = 0
                /\ addr_to_index(Buddy, a) % BUDDY_PAGES_PER_ORDER(k) = 0

\* The first four calls on the fresh allocator are buddy_alloc_order(0)
\* twice and buddy_free of the two addresses, the second one first.
TwoPagesFreedInReverse ==
    /\ g_buddy_allocator /\ ~hung
    /\ Len(calls) = 4
    /\ calls[1].op = "buddy_alloc_order" /\ calls[1].arg = 0 /\ calls[1].ret # 0
    /\ calls[2].op = "buddy_alloc_order" /\ calls[2].arg = 0 /\ calls[2].ret # 0
    /\ calls[3].op = "buddy_free" /\ calls[3].arg = calls[2].ret
    /\ calls[4].op = "buddy_free" /\ calls[4].arg = calls[1].ret

\* C11: on a fresh allocator, buddy_alloc_order(0) twice and buddy_free of the
\* two addresses in reverse order raise merges by one (buddy_init leaves it 0
\* and allocation does not change it) and leave the two pages as one free
\* block of order 1.
C11_ReverseFreeMerges ==
    TwoPagesFreedInReverse =>
        /\ merges = 1
        /\ \E a \in FreeList(1) :
               {a, a + PAGE_SIZE} = {calls[1].ret, calls[2].ret}

\* The slabs linked from a list head of a cache through slab->next.
RECURSIVE SlabChain(_, _)
SlabChain(h, seen) ==
    IF h = NULL \/ h \in seen \/ h \notin DOMAIN blk_next THEN seen
    ELSE SlabChain(blk_next[h], seen \cup {h})

SlabLists == {"slabs_empty", "slabs_partial", "slabs_full"}
OnList(cache, head) == SlabChain(caches[cache][head], {})

\* The slabs of a cache: those whose pages it holds, and whatever its lists
\* link.
CacheSlabs(cache) ==
    {s \in DOMAIN slabs : /\ slabs[s].cache = cache
                          /\ addr_to_index(Buddy, s) \in allocation_bitmap}
        \cup UNION {OnList(cache, head) : head \in SlabLists}

\* The list a slab belongs on by its free count.
ListFor(s) ==
    IF s \notin DOMAIN slabs THEN "none"
    ELSE IF slabs[s].free_objects = slabs[s].num_objects THEN "slabs_empty"
    ELSE IF slabs[s].free_objects = 0 THEN "slabs_full"
    ELSE "slabs_partial"

\* C12: after every slab_alloc, slab_free and slab_cache_shrink, each slab of
\* the cache is reachable from exactly one of the three list heads, the one
\* that matches its free count.
C12_SlabOnItsList ==
    (~hung /\ ~wild) =>
        \A cache \in DOMAIN caches : \A s \in CacheSlabs(cache) :
            {head \in SlabLists : s \in OnList(cache, head)} = {ListFor(s)}

\* The last two calls on the cache were slab_free(o) and then slab_alloc.
FreeThenAlloc ==
    /\ Len(slab_calls) = 2
    /\ slab_calls[1].op = "slab_free"
    /\ slab_calls[2].op = "slab_alloc"

\* C13: the slab_alloc that directly follows slab_free(o) returns o; so do
\* slab_alloc, slab_free, slab_alloc on a fresh cache.
C13_LastFreedFirst ==
    (FreeThenAlloc /\ ~hung /\ ~wild) => slab_calls[2].ret = slab_calls[1].arg

\* A freed object has been handed out again by the next slab_alloc.
C13_Reused ==
    /\ FreeThenAlloc /\ ~hung /\ ~wild
    /\ slab_calls[2].ret = slab_calls[1].arg
    /\ slab_calls[2].ret # NULL

\* ------------------------------------------------------------------ PMM
\* C14: after pmm_init and any sequence of pmm_alloc_page, pmm_alloc_pages,
\* pmm_free_page, pmm_free_pages, pmm_mark_region_used and
\* pmm_mark_region_free, used_pages is the number of set bits of the bitmap,
\* 0 <= used_pages <= total_pages, and pmm_get_free_pages() +
\* pmm_get_used_pages() = pmm_get_total_pages().
C14_PmmCounts ==
    pmm_ready =>
        /\ used_pages = Cardinality(page_bitmap)
        /\ page_bitmap \subseteq 0 .. pmm_total_pages - 1
        /\ 0 <= used_pages /\ used_pages <= pmm_total_pages
        /\ pmm_get_free_pages(Pmm) + pmm_get_used_pages(Pmm)
               = pmm_get_total_pages(Pmm)

\* A region was marked used over pages that were partly set already, and the
\* count is still the number of set bits.
C14_MarkedOverSetBits ==
    /\ pmm_last.op = "pmm_mark_region_used"
    /\ pmm_held # {}
    /\ used_pages = Cardinality(page_bitmap)
    /\ used_pages > Cardinality(pmm_held)

AllocOps == {"pmm_alloc_page", "pmm_alloc_pages"}

\* C15: between the moment pmm_alloc_page or pmm_alloc_pages hands out a frame
\* and the moment that frame is freed, no call of pmm_alloc_page returns that
\* frame and no call of pmm_alloc_pages returns a run that contains it.
C15_NoFrameTwice ==
    [][(pmm_ops' # pmm_ops /\ pmm_last'.op \in AllocOps)
           => pmm_last'.ret \cap pmm_held = {}]_vars

\* A call handed out frames while earlier frames were still held.
C15_HandedOutBesideHeld ==
    /\ pmm_last.op \in AllocOps
    /\ pmm_last.ret # {}
    /\ pmm_held \ pmm_last.ret # {}

\* C16: if pmm_alloc_page returned the address a and pmm_free_page(a) is then
\* called, the bitmap bit of a is cleared and used_pages decreases by one (so
\* that a later pmm_alloc_page can return a again).
C16_FreeClearsBit ==
    (pmm_last.op = "pmm_free_page" /\ pmm_last.held) =>
        /\ addr_to_page(pmm_last.arg) \notin page_bitmap
        /\ used_pages = pmm_last.used_before - 1

\* C17: directly after pmm_init, pmm_get_total_pages() is
\* (PHYS_MEMORY_END - PHYS_FREE_START) / 4096 and pmm_get_used_pages() is at
\* least 1.
C17_AfterPmmInit ==
    pmm_last.op = "pmm_init" =>
        /\ pmm_get_total_pages(Pmm)
               = (PHYS_MEMORY_END - PHYS_FREE_START) \div 4096
        /\ pmm_get_used_pages(Pmm) >= 1

\* ------------------------------------------------------------------ VMM
LastCall == vmm_calls[Len(vmm_calls)]

MappedOk ==
    /\ vmm_calls # <<>>
    /\ LastCall.op = "vmm_map_page" /\ LastCall.ret = "E_OK"

MappedThenUnmappedOk ==
    /\ Len(vmm_calls) = 2
    /\ vmm_calls[1].op = "vmm_map_page" /\ vmm_calls[1].ret = "E_OK"
    /\ vmm_calls[2].op = "vmm_unmap_page" /\ vmm_calls[2].ret = "E_OK"
    /\ vmm_calls[2].v = vmm_calls[1].v

\* C19: for every page-aligned v and p and every flag set F, after a
\* vmm_map_page(v, p, F) that returned E_OK vmm_get_physical(v) is p, and after
\* a following vmm_unmap_page(v) that returned E_OK vmm_get_physical(v) is 0,
\* whatever entries (huge-page entries included) the tables held for v before.
C19_MapGetUnmap ==
    /\ MappedOk => vmm_get_physical(Vm, LastCall.v) = LastCall.p
    /\ MappedThenUnmappedOk => vmm_get_physical(Vm, LastCall.v) = 0

\* -------------------------------------------------------------- drivers
\* C20: during driver_init_all a driver is initialised only while it is
\* UNINITIALIZED and either its depends_on is empty or the registered driver
\* of that name is INITIALIZED or ENABLED at that moment.
C20_InitAfterDependency ==
    init_call.name # "" =>
        /\ init_call.status[init_call.name] = "UNINITIALIZED"
        /\ \/ init_call.drv.depends_on = ""
           \/ \E i \in 1 .. Len(init_call.registry) :
                 /\ init_call.registry[i].name = init_call.drv.depends_on
                 /\ init_call.status[init_call.registry[i].name]
                        \in {"INITIALIZED", "ENABLED"}

\* The init function of a driver with a dependency was called, in a pass
\* after the first.
C20_DependentInitialised ==
    /\ init_call.name # ""
    /\ init_call.called
    /\ init_call.drv.depends_on # ""
    /\ init_all.at # "idle" /\ init_all.pass > 1

\* -------------------------------------------------------------- kmalloc
FreedLast ==
    /\ Len(kcalls) = 2
    /\ kcalls[1].op = "kmalloc" /\ kcalls[1].ret # NULL
    /\ kcalls[2].op = "kfree" /\ kcalls[2].ptr = kcalls[1].ret

\* C18: for each size in {1, 32, 64, 4096, 8192, 1 MiB} kmalloc(size) returns
\* non-null, and kfree of the result brings the counter of the allocator the
\* memory came from (the active objects of the slab cache, the used bytes of
\* the buddy allocator) back to its value before the kmalloc; the kmalloc
\* that follows succeeds as well.
C18_KfreeGivesBack ==
    /\ \A i \in 1 .. Len(kcalls) :
          kcalls[i].op = "kmalloc" => kcalls[i].ret # NULL
    /\ FreedLast => kcalls[2].after = kcalls[1].before

\* driver_init_all returns in this step.
InitAllReturns == init_all.at # "idle" /\ init_all'.at = "idle"

\* C21: driver_init_all terminates whatever the registry holds
\* (self-dependencies, cycles, names that are not registered), and when it
\* returns a driver that was UNINITIALIZED at the call is still UNINITIALIZED
\* exactly if its dependency is not INITIALIZED or ENABLED; every other one
\* is INITIALIZED or FAILED.
C21_InitAllTerminates ==
    /\ (init_all.at # "idle") ~> (init_all.at = "idle")
    /\ [][InitAllReturns =>
            \A i \in 1 .. Len(driver_registry) :
               LET d == driver_registry[i]
               IN  init_all.before[d.name] = "UNINITIALIZED" =>
                     /\ (drv_status'[d.name] = "UNINITIALIZED")
                          <=> ~driver_dependencies_met(driver_registry,
                                                       drv_status', d)
                     /\ drv_status'[d.name]
                          \in {"UNINITIALIZED", "INITIALIZED", "FAILED"}]_vars

\* A third pass ends without progress: three drivers are registered, one
\* left UNINITIALIZED and one initialised.
C21_ReturnsWithLeftover ==
    /\ init_all.at = "for"
    /\ init_all.i > Len(init_all.sorted_queue)
    /\ ~init_all.progress_made
    /\ init_all.pass >= 3
    /\ \E n \in DriverNames : drv_status[n] = "UNINITIALIZED"
    /\ \E n \in DriverNames : drv_status[n] = "INITIALIZED"

\* The visit of this step initialises a driver.
Initialises == init_all.at = "for" /\ init_call' # init_call

\* C22: a driver whose init returns a value other than E_OK becomes FAILED;
\* driver_init_all goes on to initialise every other driver whose dependency
\* is met, never initialises a driver that depends on a failed one, and
\* returns E_OK.
C22_FailureIsContained ==
    [][/\ (Initialises /\ init_call'.drv.init \notin {"none", "E_OK"})
            => drv_status'[init_call'.name] = "FAILED"
       /\ (Initialises /\ init_call'.drv.depends_on \in DriverNames)
            => drv_status[init_call'.drv.depends_on] # "FAILED"
       /\ (InitAllReturns /\ \E n \in DriverNames : drv_status'[n] = "FAILED")
            => /\ init_all'.ret = "E_OK"
               /\ \A i \in 1 .. Len(driver_registry) :
                     LET d == driver_registry[i]
                     IN  (/\ init_all.before[d.name] = "UNINITIALIZED"
                          /\ driver_dependencies_met(driver_registry,
                                                     drv_status', d))
                         => drv_status'[d.name] # "UNINITIALIZED"]_vars

\* A driver was initialised after another one had failed in the same call,
\* while a third, which depends on the failed one, is left alone.
C22_InitialisedAfterFailure ==
    /\ init_all.at # "idle"
    /\ init_call.name # "" /\ init_call.called
    /\ init_call.drv.init = "E_OK"
    /\ \E n \in DriverNames :
          /\ init_call.status[n] = "FAILED"
          /\ init_all.before[n] = "UNINITIALIZED"
          /\ \E i \in 1 .. Len(driver_registry) :
                /\ driver_registry[i].depends_on = n
                /\ drv_status[driver_registry[i].name] = "UNINITIALIZED"

\* The status changes of the driver life cycle.
StatusSteps ==
    { <<"UNINITIALIZED", "INITIALIZED">>, <<"UNINITIALIZED", "FAILED">>,
      <<"INITIALIZED", "ENABLED">>, <<"INITIALIZED", "DISABLED">>,
      <<"INITIALIZED", "FAILED">> }

\* C23: across driver_register, driver_unregister and driver_init_all the
\* status of a driver changes only UNINITIALIZED -> INITIALIZED,
\* UNINITIALIZED -> FAILED or INITIALIZED -> {ENABLED, DISABLED, FAILED}; a
\* driver that is INITIALIZED or FAILED never returns to UNINITIALIZED.
C23_StatusLifeCycle ==
    [][\A n \in DriverNames :
          (drv_of'[n] = drv_of[n] /\ drv_status'[n] # drv_status[n])
             => <<drv_status[n], drv_status'[n]>> \in StatusSteps]_vars


\* ------------------------------------------------------- the NVMe driver
QueueNames == {"admin", "io"}
QueueNamed(ctrl, q) == IF q = "admin" THEN ctrl.admin_queue ELSE ctrl.io_queue

\* nvme_wait_completion accepts an entry of queue q in this step.
Accepts(q) == nvme_hist'[q].consumed = nvme_hist[q].consumed + 1

C25_MatchingCompletion ==
    [][\A q \in QueueNames :
        LET qp == QueueNamed(nvme_ctrl, q)
        IN  (/\ nvme_pc.at = "wait" /\ nvme_pc.timeout > 0
             /\ nvme_pc.is_admin = (q = "admin")
             /\ nvme_pc' # nvme_pc
             /\ qp.cq[qp.cq_head].status % 2 = qp.cq_phase
             /\ qp.cq[qp.cq_head].cid = nvme_pc.cid)
            => /\ nvme_pc'.at = "returned"
               /\ nvme_pc'.res =
                    IF \A b \in 1 .. 11 :
                        (qp.cq[qp.cq_head].status \div (2 ^ b)) % 2 = 0
                    THEN "E_OK" ELSE "E_HARDWARE"
               /\ QueueNamed(nvme_ctrl', q).cq_head
                    = (qp.cq_head + 1) % qp.cq_size
               /\ nvme_regs'.db[IF q = "admin" THEN 4100 ELSE 4108]
                    = QueueNamed(nvme_ctrl', q).cq_head
    ]_vars

\* A block operation has returned E_OK for a completion whose status word
\* has a bit set above the status code, after the I/O queue has wrapped.
C25_AcceptedWithHighBit ==
    /\ nvme_pc.at = "returned" /\ nvme_pc.res = "E_OK"
    /\ nvme_pc.after = "block"
    /\ nvme_hist["io"].consumed > 0
    /\ nvme_hist["io"].posted[nvme_hist["io"].consumed].status >= 32768
    /\ nvme_regs.db[4108] = nvme_ctrl.io_queue.cq_head

\* C26: an iteration of nvme_wait_completion that finds an entry of the
\* current phase with another command id at cq_head drops it: cq_head moves
\* on, so that the awaited completion behind it is reached.
C26_DropsNonMatching ==
    [][\A q \in QueueNames :
        LET qp == QueueNamed(nvme_ctrl, q)
        IN  (/\ nvme_pc.at = "wait" /\ nvme_pc.timeout > 0
             /\ nvme_pc.is_admin = (q = "admin")
             /\ nvme_pc' # nvme_pc
             /\ qp.cq[qp.cq_head].status % 2 = qp.cq_phase
             /\ qp.cq[qp.cq_head].cid # nvme_pc.cid)
            => QueueNamed(nvme_ctrl', q).cq_head
                    = (qp.cq_head + 1) % qp.cq_size
    ]_vars

\* nvme_init returns in this step.
NvmeInitDone == nvme_pc.at # "done" /\ nvme_pc.ret = "none" /\ nvme_pc'.at = "done"

\* C27: nvme_init returns E_NOTFOUND without an NVMe function, E_TIMEOUT
\* when the ready bit does not clear, does not set, or an admin completion
\* does not arrive, and E_HARDWARE, once the controller is being enabled,
\* only for the fatal-status bit or a completion with a status code; a wait
\* whose poll budget is used up returns E_TIMEOUT.
C27_InitErrors ==
    [][/\ (NvmeInitDone /\ nvme_dev'.pci = "none")
            => nvme_pc'.ret = "E_NOTFOUND"
       /\ (NvmeInitDone /\ nvme_pc.at = "disable_check" /\ nvme_regs.rdy)
            => nvme_pc'.ret = "E_TIMEOUT"
       /\ (NvmeInitDone /\ nvme_pc.at = "ready_check" /\ ~nvme_regs.rdy)
            => nvme_pc'.ret = "E_TIMEOUT"
       /\ (NvmeInitDone /\ nvme_pc.at = "returned"
                /\ nvme_pc.res = "E_TIMEOUT")
            => nvme_pc'.ret = "E_TIMEOUT"
       /\ (NvmeInitDone /\ nvme_pc'.ret = "E_HARDWARE"
                /\ \/ nvme_pc.at \in {"ready_wait", "ready_check"}
                   \/ nvme_pc.at = "returned" /\ nvme_pc.res # "E_OK")
            => \/ nvme_regs.cfs
               \/ nvme_pc.at = "returned" /\ nvme_pc.res = "E_HARDWARE"
       /\ (nvme_pc.at = "wait" /\ nvme_pc.timeout = 0 /\ nvme_pc' # nvme_pc)
            => nvme_pc'.at = "returned" /\ nvme_pc'.res = "E_TIMEOUT"
    ]_vars

\* ---------------------------------------------------------- VFS and ramfs
\* The call made in this step: op on path.
Calls(op, path) ==
    /\ fs_ops' = fs_ops + 1
    /\ fs_last'.op = op /\ fs_last'.path = path

\* The directory part of a path of FsPaths, and the node it names.
DirOf(path) ==
    IF Len(path) - Len(vfs_basename(path)) <= 1 THEN RootPath
    ELSE SubSeq(path, 1, Len(path) - Len(vfs_basename(path)) - 1)
DirNode(path) == vfs_resolve_path(vfs_root, fs_nodes, DirOf(path))

\* The nodes still linked below node, and the path that names a node.
RECURSIVE Below(_, _, _)
Below(nodes, node, fuel) ==
    IF fuel = 0 THEN {}
    ELSE {node} \cup UNION {Below(nodes, c, fuel - 1) :
                                c \in SeqRange(ReadDir(nodes, node))}
RECURSIVE PathOf(_, _, _)
PathOf(nodes, node, fuel) ==
    IF fuel = 0 \/ nodes[node].parent = NULL THEN <<>>
    ELSE PathOf(nodes, nodes[node].parent, fuel - 1)
            \o <<Slash>> \o nodes[node].name

\* C28: with ramfs mounted at "/", vfs_create_file of a path whose directory
\* exists and holds no child of that name returns E_OK, and vfs_open of the
\* path then gives a regular file whose parent is that directory; every
\* named node still linked below the root is what its path resolves to.
C28_CreateThenOpen ==
    [][/\ \A path \in FsPaths \ {RootPath} :
            (/\ Calls("REGULAR", path)
             /\ DirNode(path) # NULL
             /\ fs_nodes[DirNode(path)].type = "DIRECTORY"
             /\ FirstNamed(fs_nodes, ReadDir(fs_nodes, DirNode(path)),
                           vfs_basename(path)) = NULL)
            => /\ fs_last'.err = "E_OK"
               /\ LET node == vfs_resolve_path(vfs_root', fs_nodes', path)
                  IN  /\ node # NULL
                      /\ fs_nodes'[node].type = "REGULAR"
                      /\ fs_nodes'[node].parent = DirNode(path)
       /\ mount_in_use' =>
            \A node \in Below(fs_nodes', vfs_root', MaxFsNodes + 1)
                            \ {vfs_root'} :
                fs_nodes'[node].name # <<>> =>
                vfs_resolve_path(vfs_root', fs_nodes',
                                 PathOf(fs_nodes', node, MaxFsNodes + 1))
                    = node
    ]_vars

RECURSIVE Without(_, _)
Without(ids, node) ==
    IF ids = <<>> THEN <<>>
    ELSE IF Head(ids) = node THEN Without(Tail(ids), node)
    ELSE <<Head(ids)>> \o Without(Tail(ids), node)

\* What a directory listing and a read show of a node.
Shown(nodes, node) ==
    [name |-> nodes[node].name, type |-> nodes[node].type,
     size |-> nodes[node].size, data |-> nodes[node].data,
     parent |-> nodes[node].parent]

\* C29: vfs_delete of a path that names a node other than the root returns
\* E_OK and frees the blocks of that node and no others; afterwards the path
\* resolves to nothing, the parent directory is still there, and its listing
\* is the old one without the node: the same children in the same order
\* with the same names, types, sizes and contents.
C29_DeleteRemovesOneNode ==
    [][\A path \in FsPaths :
        LET node == vfs_resolve_path(vfs_root, fs_nodes, path)
        IN  (Calls("delete", path) /\ node # NULL /\ node # vfs_root)
            => LET parent == fs_nodes[node].parent
               IN  /\ fs_last'.err = "E_OK"
                   /\ vfs_resolve_path(vfs_root', fs_nodes', path) = NULL
                   /\ fs_allocs' = fs_allocs \ {VfsNodeOf(node),
                                               RamfsNodeOf(node),
                                               DataOf(node)}
                   /\ vfs_resolve_path(vfs_root', fs_nodes', DirOf(path))
                        = parent
                   /\ Shown(fs_nodes', parent) = Shown(fs_nodes, parent)
                   /\ ReadDir(fs_nodes', parent)
                        = Without(ReadDir(fs_nodes, parent), node)
                   /\ \A c \in SeqRange(ReadDir(fs_nodes', parent)) :
                        /\ Shown(fs_nodes', c) = Shown(fs_nodes, c)
                        /\ ReadDir(fs_nodes', c) = ReadDir(fs_nodes, c)
    ]_vars

\* mkdir /a, create /a/b, delete /a/b: /a is present and empty.
C29_DirectoryLeftEmpty ==
    /\ fs_last.op = "delete" /\ fs_last.err = "E_OK"
    /\ fs_last.path = <<Slash, "a", Slash, "b">>
    /\ LET dir == vfs_resolve_path(vfs_root, fs_nodes, <<Slash, "a">>)
       IN  /\ dir # NULL
           /\ fs_nodes[dir].type = "DIRECTORY"
           /\ ReadDir(fs_nodes, dir) = <<>>
           /\ VfsNodeOf(dir) \in fs_allocs

\* C30: vfs_unmount("/") leaves as many live kmalloc blocks as there were
\* just before vfs_mount, whatever was created, written and deleted in
\* between.
C30_UnmountFreesAll ==
    [][(Calls("unmount", RootPath) /\ fs_last'.err = "E_OK")
        => Cardinality(fs_allocs') = Cardinality(fs_base)]_vars

\* C31: vfs_write of n >= 0 bytes to a regular file returns E_OK, makes the
\* bytes written the whole content and n the size; vfs_read of m bytes from
\* a regular file returns E_OK and the first min(m, size) bytes of the
\* content.
C31_WriteThenRead ==
    [][\A path \in FsPaths :
        LET node == vfs_resolve_path(vfs_root, fs_nodes, path)
        IN  (node # NULL /\ fs_nodes[node].type = "REGULAR")
            => /\ Calls("write", path)
                    => /\ fs_last'.err = "E_OK"
                       /\ fs_nodes'[node].data = fs_last'.arg
                       /\ fs_nodes'[node].size = Len(fs_last'.arg)
               /\ Calls("read", path)
                    => /\ fs_last'.err = "E_OK"
                       /\ \E m \in FsReadSizes :
                            /\ fs_last'.arg = <<m>>
                            /\ Len(fs_last'.out)
                                = (IF m < fs_nodes[node].size THEN m
                                   ELSE fs_nodes[node].size)
                            /\ \A i \in 1 .. Len(fs_last'.out) :
                                fs_last'.out[i] = fs_nodes[node].data[i]
    ]_vars

\* C32: vfs_copy_file(dest, source) with source a regular file leaves the
\* source as it was and makes dest a regular file with the size and the
\* bytes of the source; stated for a dest in the root directory, where
\* vfs_dirname gives "/" whatever its loop variable holds.
C32_CopyFile ==
    [][\A dest \in FsPaths \ {RootPath}, source \in FsPaths :
        LET src == vfs_resolve_path(vfs_root, fs_nodes, source)
            old == vfs_resolve_path(vfs_root, fs_nodes, dest)
        IN  (/\ Calls("copy", dest) /\ fs_last'.arg = source
             /\ src # NULL /\ fs_nodes[src].type = "REGULAR"
             /\ src # old
             /\ DirOf(dest) = RootPath
             /\ old # NULL => fs_nodes[old].type = "REGULAR")
            => LET dst == vfs_resolve_path(vfs_root', fs_nodes', dest)
               IN  /\ Shown(fs_nodes', src) = Shown(fs_nodes, src)
                   /\ vfs_resolve_path(vfs_root', fs_nodes', source) = src
                   /\ dst # NULL
                   /\ fs_nodes'[dst].type = "REGULAR"
                   /\ fs_nodes'[dst].size = fs_nodes[src].size
                   /\ fs_nodes'[dst].data = fs_nodes[src].data
    ]_vars

\* The order of the block an allocation call of the log returned.
OrderOfCall(call) ==
    IF call.op = "buddy_alloc_order" THEN call.arg
    ELSE buddy_get_order_for_size(call.arg)

\* The last call of the log that returned addr, 0 when there is none.
RECURSIVE LastGiven(_, _, _)
LastGiven(log, addr, i) ==
    IF i = 0 THEN 0
    ELSE IF log[i].op # "buddy_free" /\ log[i].ret = addr THEN i
    ELSE LastGiven(log, addr, i - 1)

\* The order the caller asked for when it was given addr.
OrderGiven(log, addr) == OrderOfCall(log[LastGiven(log, addr, Len(log))])

\* The page indices of the block of an order at addr.
PagesOf(addr, order) ==
    addr_to_index(Buddy, addr) ..
        addr_to_index(Buddy, addr) + BUDDY_PAGES_PER_ORDER(order) - 1

\* C33: buddy_free(a) of a block that buddy_alloc_order(k) or buddy_alloc
\* returned and that was not freed since clears the 2^k bitmap bits of the
\* block and no other bit, whatever the state of the frames after it.
C33_FreeClearsOwnBits ==
    [][(/\ Len(calls') = Len(calls) + 1
        /\ calls'[Len(calls')].op = "buddy_free"
        /\ ~hung')
       => LET a == calls'[Len(calls')].arg
          IN  allocation_bitmap' =
                  allocation_bitmap \ PagesOf(a, OrderGiven(calls, a))]_vars

\* The pages of the blocks given out and not freed since.
LivePages(addr) == PagesOf(addr, OrderGiven(calls, addr))

\* C36: the blocks given out and not yet freed are pairwise disjoint and
\* disjoint from every block on a free list.
C36_LiveBlocksDisjoint ==
    (g_buddy_allocator /\ ~hung) =>
        /\ \A a1, a2 \in held :
               a1 # a2 => LivePages(a1) \cap LivePages(a2) = {}
        /\ \A a \in held : \A k \in 0 .. BUDDY_MAX_ORDER :
               \A f \in FreeList(k) : LivePages(a) \cap PagesOf(f, k) = {}

\* The buddy allocator has a free block of the slab order of the cache, or
\* a larger one to split.
BuddyCanSupply(cache) ==
    \E k \in caches[cache].slab_order .. BUDDY_MAX_ORDER : free_lists[k] # NULL

\* C34: a slab_alloc made while the buddy allocator can supply a slab
\* returns an object, also when every slab of the cache is full.
C34_AllocWhileBuddyHasMemory ==
    [][(/\ slab_ops' = slab_ops + 1
        /\ slab_calls'[Len(slab_calls')].op = "slab_alloc"
        /\ ~hung' /\ ~wild'
        /\ \A cache \in DOMAIN caches : BuddyCanSupply(cache))
       => slab_calls'[Len(slab_calls')].ret # NULL]_vars

\* The place of a registered driver in driver_registry.
RegisteredAt(name) ==
    CHOOSE i \in 1 .. Len(driver_registry) : driver_registry[i].name = name

\* x comes before y in the order of priority value, ties in registration
\* order.
VisitedBefore(x, y) ==
    \/ x.priority < y.priority
    \/ /\ x.priority = y.priority
       /\ RegisteredAt(x.name) < RegisteredAt(y.name)

\* The for loop of driver_init_all initialises a driver in this step.
InitialisesOne == init_all.at = "for" /\ drv_status' # drv_status

\* C35: when driver_init_all initialises a driver y, no driver that comes
\* before y by priority value (ties by registration) is still uninitialised
\* although its dependency was satisfied when the pass began; and a driver
\* initialised after one of larger priority value that the same call
\* initialised has a dependency.
C35_PriorityOrder ==
    [][InitialisesOne =>
         LET y == init_call'.drv
         IN  \A i \in 1 .. Len(driver_registry) :
               LET x == driver_registry[i]
               IN  /\ (/\ x.name # y.name
                       /\ drv_status[x.name] = "UNINITIALIZED"
                       /\ VisitedBefore(x, y))
                      => ~driver_dependencies_met(driver_registry,
                                                  init_all.start, x)
                   /\ (/\ x.priority > y.priority
                       /\ init_all.before[x.name] = "UNINITIALIZED"
                       /\ drv_status[x.name] # "UNINITIALIZED")
                      => y.depends_on # ""]_vars

\* A driver was initialised after a driver of larger priority value that
\* the same call initialised before it.
C35_SmallerAfterLarger ==
    /\ init_all.at # "idle"
    /\ init_call.name # ""
    /\ \E i \in 1 .. Len(driver_registry) :
          /\ driver_registry[i].priority > init_call.drv.priority
          /\ init_all.before[driver_registry[i].name] = "UNINITIALIZED"
          /\ drv_status[driver_registry[i].name] = "INITIALIZED"

\* C37: the idle task is never linked on the ready queue, and a step that
\* puts the idle task on the CPU is taken only when no other task is on the
\* ready queue.
C37_IdleOnlyWhenNoneReady ==
    [][/\ idle_task' # NULL => idle_task' \notin ReadyQueue'
       /\ (/\ idle_task # NULL
           /\ current_task # idle_task
           /\ current_task' = idle_task)
          => ReadyQueue \ {idle_task} = {}]_vars

\* A reader is blocked in tty_read on a full ring that holds no newline,
\* after a newline was typed for it: that newline was dropped, and so is
\* every character typed from now on.
NewlineLost(t) ==
    /\ state[t] = "BLOCKED"
    /\ waiting_task = t
    /\ count = TTY_BUFFER_SIZE
    /\ ~HasNewline(Tty)
    /\ NL \in SeqRange(pending)

\* C38: a newline typed for a reader blocked in tty_read is not dropped in
\* a way that leaves the reader blocked with all further input dropped, also
\* after 256 characters without a newline.
C38_NewlineWakesReader == \A t \in UserTask : ~NewlineLost(t)

\* The size class of kmalloc whose slabs hold obj, 0 when none does.
ClassOf(obj) ==
    LET f == FindCache(K, obj, 1)
    IN  IF f.res = "found" THEN caches[f.cache].object_size ELSE 0

\* C39: krealloc(p, n) with p non-null and n > 0 that returns an object of a
\* slab size class returns one of at least n bytes.
C39_ReallocGivesRoom ==
    (/\ kcalls # <<>>
     /\ kcalls[Len(kcalls)].op = "krealloc"
     /\ kcalls[Len(kcalls)].size > 0
     /\ kcalls[Len(kcalls)].ret # NULL
     /\ ~hung /\ ~wild
     /\ ~is_buddy_allocation(K, kcalls[Len(kcalls)].ret))
    => ClassOf(kcalls[Len(kcalls)].ret) >= kcalls[Len(kcalls)].size

\* C40: while nothing is mounted at "/" after a vfs_unmount("/") that
\* returned E_OK, vfs_open returns null for every path, "/" included.
C40_NothingResolvesAfterUnmount ==
    [][(/\ ~mount_in_use
        /\ fs_root = NULL
        /\ fs_last'.op = "open")
       => fs_last'.out = <<NULL>>]_vars


====
